---- MODULE Spec2Model ----
(***************************************************************************)
(* Real-time presence and message delivery of the social-app backend:      *)
(* ChatGateway (src/src/chat/chat.gateway.ts), ChatService.sendMessage     *)
(* (src/src/chat/chat.service.ts) and ChatController.sendMessage           *)
(* (src/src/chat/chat.controller.ts).                                      *)
(*                                                                         *)
(* The server is one event loop: a handler runs without interruption up to *)
(* its next `await` of I/O, so every action below is one such run, and the *)
(* position of a suspended handler is kept in a pc field.                  *)
(***************************************************************************)
EXTENDS Integers, Sequences, FiniteSets, TLC

\* ------------------------------------------------------------- bounds ----
NumSockets == 2      \* connections ever accepted by the gateway
MaxTime == 4         \* readings of Date.now() are 0..MaxTime, in units of 15 s
NumOps == 2          \* message send requests
NumReads == 2        \* mark-as-read requests
NumPostOps == 2      \* like, comment and friend requests
NumGroupOps == 2     \* member removals, typing signals and group updates
MaxChats == 1        \* conversations in the store

\* ---------------------------------------------------------- universes ----
Users == {1, 2, 3}             \* rows of the user table
GhostUser == Cardinality(Users) + 1   \* an id a signed token carries, with no user row
TokenUsers == {1, 3}            \* the users that connect
Sockets == 1..NumSockets       \* socket ids
ChatIds == 1..MaxChats
OpIds == 1..NumOps
ReadIds == 1..NumReads
PostOpIds == 1..NumPostOps
GroupOpIds == 1..NumGroupOps
Undefined == 0                 \* JavaScript undefined / null for ids

\* Channel names: `user:<id>` and `chat:<id>`.
UserRoom(u) == <<"user", u>>
ChatRoom(ch) == <<"chat", ch>>
Rooms == {UserRoom(u) : u \in Users} \cup {ChatRoom(ch) : ch \in ChatIds}

\* What a handshake carries: the cookie header reduced to what the code reads
\* of it. present: a token=... pair was found; blank: the token is only white
\* space; parts: the number of dot-separated parts; sigOk: jwtService.verify
\* accepts it; uid: payload.userId (Undefined when the payload has none).
Handshakes ==
    {[present |-> FALSE, blank |-> FALSE, parts |-> 0, sigOk |-> FALSE, uid |-> Undefined],
     [present |-> TRUE, blank |-> TRUE, parts |-> 1, sigOk |-> FALSE, uid |-> Undefined],
     [present |-> TRUE, blank |-> FALSE, parts |-> 2, sigOk |-> FALSE, uid |-> Undefined],
     [present |-> TRUE, blank |-> FALSE, parts |-> 3, sigOk |-> FALSE, uid |-> 1],
     [present |-> TRUE, blank |-> FALSE, parts |-> 3, sigOk |-> TRUE, uid |-> Undefined]}
    \cup {[present |-> TRUE, blank |-> FALSE, parts |-> 3, sigOk |-> TRUE, uid |-> u] :
             u \in TokenUsers \cup {GhostUser}}

VARIABLES
    \* ---- ChatGateway fields
    connectedUsers,      \* Map userId -> Set of socket ids
    userLastSeen,        \* Map userId -> timestamp
    heartbeatIntervals,  \* Map socketId -> interval: the sockets with an armed interval
    \* ---- per socket (AuthenticatedSocket and the socket.io server)
    userId,              \* client.userId, Undefined until the handshake sets it
    pingTimeout,         \* client.pingTimeout: "undefined", "armed" or "stale"
    orphanTimers,        \* armed timeout timers client.pingTimeout no longer refers to
    disconnected,        \* client.disconnected
    rooms,               \* the adapter's rooms: channel -> set of socket ids
    hsPc,                \* handleConnection: "fresh", "lookup", "registered", "rejected"
    hsUser,              \* the userId handleConnection is looking up
    joinReq,             \* handleJoinChat awaiting the membership lookup: chat id or Undefined
    emitted,             \* what the last step emitted to sockets: {<<socket, event>>}
    disconnectHandled,   \* handleDisconnect has returned for the socket
    closeReason,         \* the reason socket.io gave the 'disconnect' listeners, "" before
    timeoutDue,          \* when the armed client.pingTimeout fires (0 when none is armed)
    intervalDue,         \* when the socket's interval fires next (0 when it has none)
    registeredAt,        \* when setupHeartbeat ran for the socket
    ponged,              \* the socket has answered a probe
    now,                 \* Date.now()
    \* ---- the durable store
    chats,               \* chat id -> [type, members]
    whoCanMessage,       \* UserSettings.whoCanMessage per user, "absent" with no row
    friends,             \* accepted friendships, as sets {u, v}
    messages,            \* the message table in commit order; the id is the position
    files,               \* uploaded chat files: file id -> "stored"
    chatUpdatedAt,       \* Chat.updatedAt per chat
    \* ---- message send requests and what the gateway emitted for them
    ops,                 \* op id -> the request and the position of its handler
    roomLog,             \* message:new emitted to chat rooms, in order: <<chat, msg id>>
    userLog,             \* message:new emitted to personal rooms: {<<user, msg id>>}
    \* ---- read receipts
    reads,               \* MessageRead rows: <<msg id, user>> -> number of rows
    rops,                \* read id -> a markMessagesAsRead request and its position
    readLog,             \* messages:read emitted to personal rooms
    \* ---- posts and notifications
    likes,               \* Like rows: {<<user, post>>}
    comments,            \* Comment rows: comment id -> [author, post]
    notifications,       \* Notification rows
    friendRequests,      \* pending FriendShip rows: {<<requester, target>>}
    nops,                \* request id -> a like, comment or friend request and its position
    pushLog,             \* the notifications created and pushed, in order
    \* ---- group conversations
    gops                 \* request id -> a member removal, typing signal or group update

gatewayVars == <<connectedUsers, userLastSeen, heartbeatIntervals>>
beatVars == <<timeoutDue, intervalDue, registeredAt, ponged>>
socketVars == <<userId, pingTimeout, orphanTimers, disconnected, rooms, hsPc, hsUser,
                joinReq, disconnectHandled, closeReason, beatVars>>
storeVars == <<chats, whoCanMessage, friends, messages, files, chatUpdatedAt>>
sendVars == <<ops, roomLog, userLog>>
readVars == <<reads, rops, readLog>>
notifyVars == <<likes, comments, notifications, friendRequests, nops, pushLog>>
groupVars == <<gops>>
feedVars == <<readVars, notifyVars, groupVars>>
vars == <<gatewayVars, socketVars, emitted, now, storeVars, sendVars, readVars, notifyVars,
          groupVars>>

\* ------------------------------------------------------ Map helpers ----
MapHas(m, k) == k \in DOMAIN m
MapSet(m, k, v) == [x \in DOMAIN m \cup {k} |-> IF x = k THEN v ELSE m[x]]
MapDelete(m, k) == [x \in DOMAIN m \ {k} |-> m[x]]
EmptyMap == [x \in {} |-> 0]

\* isUserOnline(userId): has(userId) && get(userId).size > 0
isUserOnline(u) == MapHas(connectedUsers, u) /\ Cardinality(connectedUsers[u]) > 0

\* getUserLastSeen(userId): the stamp, or null (Undefined)
getUserLastSeen(u) == IF MapHas(userLastSeen, u) THEN userLastSeen[u] ELSE Undefined

Connected(c) == hsPc[c] # "fresh" /\ ~disconnected[c]

\* The chats a user is a member of
IsMember(u, ch) == ch \in DOMAIN chats /\ u \in chats[ch].members

\* ------------------------------------------------- presence registry ----
\* handleConnection, lines 127-133: the set is created when missing, then the
\* socket id is added.
RegisterSocket(cu, u, c) ==
    MapSet(cu, u, (IF MapHas(cu, u) THEN cu[u] ELSE {}) \cup {c})

UnregisterSocket_KeepsEmptySet(cu, u, c) ==
    IF u # Undefined /\ MapHas(cu, u) THEN MapSet(cu, u, cu[u] \ {c}) ELSE cu

\* handleDisconnect, lines 163-179, on connectedUsers.
UnregisterSocket(cu, u, c) ==
    IF u # Undefined /\ MapHas(cu, u)
    THEN IF cu[u] \ {c} = {} THEN MapDelete(cu, u) ELSE MapSet(cu, u, cu[u] \ {c})
    ELSE cu

\* handleDisconnect, lines 170-173, on userLastSeen: stamped when the set
\* became empty.
StampOffline(ls, cu, u, c) ==
    IF u # Undefined /\ MapHas(cu, u) /\ cu[u] \ {c} = {} THEN MapSet(ls, u, now) ELSE ls

\* handleDisconnect, lines 181-184: clearTimeout without resetting the field.
ClearPingTimeout(p) == IF p = "armed" THEN "stale" ELSE p

\* socket.io on close: the socket leaves every room.
LeaveAll(rm, c) == [r \in DOMAIN rm |-> rm[r] \ {c}]

\* client.join(room)
JoinRoom(rm, r, c) == [rm EXCEPT ![r] = @ \cup {c}]

\* handleDisconnect, lines 162-179: the presence part.
handleDisconnect(c) ==
    /\ connectedUsers' = UnregisterSocket(connectedUsers, userId[c], c)
    /\ userLastSeen' = StampOffline(userLastSeen, connectedUsers, userId[c], c)
    /\ disconnectHandled' = [disconnectHandled EXCEPT ![c] = TRUE]

\* The timers after a close: handleDisconnect, lines 181-192 (only with
\* client.userId set), and the 'disconnect' listener that setupHeartbeat
\* registers, lines 228-230, which runs cleanupHeartbeat (lines 233-243).
HeartbeatAfterClose(c) ==
    /\ heartbeatIntervals' =
          IF userId[c] # Undefined \/ hsPc[c] = "registered"
          THEN heartbeatIntervals \ {c} ELSE heartbeatIntervals
    /\ pingTimeout' =
          [pingTimeout EXCEPT ![c] =
              IF hsPc[c] = "registered" THEN "undefined"
              ELSE IF userId[c] # Undefined THEN ClearPingTimeout(@) ELSE @]
    /\ timeoutDue' = [timeoutDue EXCEPT ![c] = 0]
    /\ intervalDue' = [intervalDue EXCEPT ![c] = 0]

\* The close of a socket that is still connected: socket.io empties its rooms
\* and marks it disconnected, then the 'disconnect' listeners run in the same
\* turn.
SocketClose(c) ==
    /\ rooms' = LeaveAll(rooms, c)
    /\ disconnected' = [disconnected EXCEPT ![c] = TRUE]
    /\ handleDisconnect(c)
    /\ HeartbeatAfterClose(c)

\* client.disconnect(): nothing happens on a socket that is closed already.
ClientDisconnect(c) ==
    IF disconnected[c]
    THEN UNCHANGED <<gatewayVars, pingTimeout, rooms, disconnected, disconnectHandled,
                     closeReason, timeoutDue, intervalDue>>
    ELSE /\ SocketClose(c)
         /\ closeReason' = [closeReason EXCEPT ![c] = "server namespace disconnect"]

\* ---------------------------------------------------- handleConnection ----
\* Lines 50-113, the part before the first await: the token is taken from
\* the cookie, its structure is checked and jwtService.verify is called.
TokenAccepted(h) ==
    /\ h.present            \* lines 55-85
    /\ ~h.blank             \* lines 88-94
    /\ h.parts = 3          \* lines 97-104
    /\ h.sigOk              \* line 108, verify throws otherwise
    /\ h.uid # Undefined    \* lines 111-113

\* Lines 79-104 and 147-152: every rejection is client.disconnect() and
\* nothing else.
RejectHandshake_EmitsError(c) ==
    /\ hsPc' = [hsPc EXCEPT ![c] = "rejected"]
    /\ ClientDisconnect(c)
    /\ emitted' = {<<c, "error">>}
    /\ UNCHANGED <<userId, orphanTimers, hsUser, joinReq, registeredAt, ponged>>

RejectHandshake(c) ==
    /\ hsPc' = [hsPc EXCEPT ![c] = "rejected"]
    /\ ClientDisconnect(c)
    /\ emitted' = {}
    /\ UNCHANGED <<userId, orphanTimers, hsUser, joinReq, registeredAt, ponged>>

Connect(c, h) ==
    /\ hsPc[c] = "fresh"
    /\ IF TokenAccepted(h)
       THEN /\ hsPc' = [hsPc EXCEPT ![c] = "lookup"]
            /\ hsUser' = [hsUser EXCEPT ![c] = h.uid]
            /\ UNCHANGED <<gatewayVars, userId, pingTimeout, orphanTimers, disconnected,
                           rooms, joinReq, disconnectHandled, closeReason, beatVars>>
            /\ emitted' = {}
       ELSE RejectHandshake(c)
    /\ UNCHANGED <<now, feedVars, storeVars, sendVars>>

\* setupHeartbeat, lines 197-198, in units of 15 s.
heartbeatInterval == 2
heartbeatTimeout == 1

\* setupHeartbeat, lines 196-231, called by handleConnection: ping() at once,
\* then the interval is armed and stored.
SetupHeartbeat(c) ==
    /\ heartbeatIntervals' = heartbeatIntervals \cup {c}
    /\ intervalDue' = [intervalDue EXCEPT ![c] = now + heartbeatInterval]
    /\ registeredAt' = [registeredAt EXCEPT ![c] = now]
    /\ ponged' = [ponged EXCEPT ![c] = FALSE]
    /\ IF disconnected[c]
       THEN /\ pingTimeout' = [pingTimeout EXCEPT ![c] = "undefined"]
            /\ timeoutDue' = [timeoutDue EXCEPT ![c] = 0]
            /\ emitted' = {}
            /\ UNCHANGED orphanTimers
       ELSE /\ pingTimeout' = [pingTimeout EXCEPT ![c] = "armed"]
            /\ timeoutDue' = [timeoutDue EXCEPT ![c] = now + heartbeatTimeout]
            /\ orphanTimers' =
                  [orphanTimers EXCEPT ![c] = IF pingTimeout[c] = "armed" THEN @ + 1 ELSE @]
            /\ emitted' = {<<c, "ping">>}

\* Lines 124-146, after the user was found: the socket is registered, joins
\* its personal room and gets its heartbeat.
RegisterConnection(c) ==
    /\ userId' = [userId EXCEPT ![c] = hsUser[c]]
    /\ connectedUsers' = RegisterSocket(connectedUsers, hsUser[c], c)
    /\ userLastSeen' = MapSet(userLastSeen, hsUser[c], now)
    /\ rooms' = JoinRoom(rooms, UserRoom(hsUser[c]), c)
    /\ SetupHeartbeat(c)
    /\ hsPc' = [hsPc EXCEPT ![c] = "registered"]
    /\ UNCHANGED <<disconnected, hsUser, joinReq, disconnectHandled, closeReason>>

\* Lines 116-152: prisma.user.findUnique has answered (dbOk: it did not
\* throw).
HandshakeResume(c, dbOk) ==
    /\ hsPc[c] = "lookup"
    /\ IF dbOk /\ hsUser[c] \in Users
       THEN RegisterConnection(c)
       ELSE RejectHandshake(c)
    /\ UNCHANGED <<now, feedVars, storeVars, sendVars>>

\* The transport closes (the client leaves, or the connection breaks).
Disconnect(c) ==
    /\ Connected(c)
    /\ SocketClose(c)
    /\ closeReason' = [closeReason EXCEPT ![c] = "transport close"]
    /\ emitted' = {}
    /\ UNCHANGED <<userId, orphanTimers, hsPc, hsUser, joinReq, registeredAt, ponged>>
    /\ UNCHANGED <<now, feedVars, storeVars, sendVars>>

\* ------------------------------------------------------------ heartbeat ----
\* ping(), lines 200-213, run by the interval when it is due; setInterval
\* arms it again.
HeartbeatPing(c) ==
    /\ c \in heartbeatIntervals
    /\ intervalDue[c] = now
    /\ IF disconnected[c]
       THEN /\ heartbeatIntervals' = heartbeatIntervals \ {c}
            /\ intervalDue' = [intervalDue EXCEPT ![c] = 0]
            /\ pingTimeout' = [pingTimeout EXCEPT ![c] = "undefined"]
            /\ timeoutDue' = [timeoutDue EXCEPT ![c] = 0]
            /\ emitted' = {}
            /\ UNCHANGED orphanTimers
       ELSE /\ pingTimeout' = [pingTimeout EXCEPT ![c] = "armed"]
            /\ timeoutDue' = [timeoutDue EXCEPT ![c] = now + heartbeatTimeout]
            /\ intervalDue' = [intervalDue EXCEPT ![c] = now + heartbeatInterval]
            /\ orphanTimers' =
                  [orphanTimers EXCEPT ![c] = IF pingTimeout[c] = "armed" THEN @ + 1 ELSE @]
            /\ emitted' = {<<c, "ping">>}
            /\ UNCHANGED heartbeatIntervals
    /\ UNCHANGED <<connectedUsers, userLastSeen, userId, disconnected, rooms, hsPc, hsUser,
                   joinReq, disconnectHandled, closeReason, registeredAt, ponged, now, feedVars,
                   storeVars, sendVars>>

HeartbeatTimeout_CleanupOnly(c) ==
    /\ (pingTimeout[c] = "armed" /\ timeoutDue[c] = now) \/ orphanTimers[c] > 0
    /\ timeoutDue' = [timeoutDue EXCEPT ![c] = 0]
    /\ intervalDue' = [intervalDue EXCEPT ![c] = 0]
    /\ orphanTimers' =
          [orphanTimers EXCEPT ![c] = IF pingTimeout[c] = "armed" THEN @ ELSE @ - 1]
    /\ heartbeatIntervals' = heartbeatIntervals \ {c}
    /\ pingTimeout' = [pingTimeout EXCEPT ![c] = "undefined"]
    /\ emitted' = {}
    /\ UNCHANGED <<connectedUsers, userLastSeen, rooms, disconnected, disconnectHandled,
                   closeReason, userId, hsPc, hsUser, joinReq, registeredAt, ponged, now, feedVars,
                   storeVars, sendVars>>

\* The timeout callback, lines 206-210, run when the timer is due:
\* cleanupHeartbeat, then client.disconnect().
HeartbeatTimeout(c) ==
    /\ (pingTimeout[c] = "armed" /\ timeoutDue[c] = now) \/ orphanTimers[c] > 0
    /\ timeoutDue' = [timeoutDue EXCEPT ![c] = 0]
    /\ intervalDue' = [intervalDue EXCEPT ![c] = 0]
    /\ orphanTimers' =
          [orphanTimers EXCEPT ![c] = IF pingTimeout[c] = "armed" THEN @ ELSE @ - 1]
    /\ heartbeatIntervals' = heartbeatIntervals \ {c}
    /\ pingTimeout' = [pingTimeout EXCEPT ![c] = "undefined"]
    /\ IF disconnected[c]
       THEN UNCHANGED <<connectedUsers, userLastSeen, rooms, disconnected, disconnectHandled,
                        closeReason>>
       ELSE /\ rooms' = LeaveAll(rooms, c)
            /\ disconnected' = [disconnected EXCEPT ![c] = TRUE]
            /\ closeReason' = [closeReason EXCEPT ![c] = "server namespace disconnect"]
            /\ handleDisconnect(c)
    /\ emitted' = {}
    /\ UNCHANGED <<userId, hsPc, hsUser, joinReq, registeredAt, ponged, now, feedVars, storeVars,
                   sendVars>>

Pong_TimeoutLeftArmed(c) ==
    /\ Connected(c)
    /\ hsPc[c] = "registered"
    /\ pingTimeout[c] # "undefined"
    /\ ~ponged[c]
    /\ ponged' = [ponged EXCEPT ![c] = TRUE]
    /\ UNCHANGED <<gatewayVars, userId, pingTimeout, timeoutDue, orphanTimers, disconnected,
                   rooms, hsPc, hsUser, joinReq, disconnectHandled, closeReason, intervalDue,
                   registeredAt, now, feedVars, storeVars, sendVars>>
    /\ emitted' = {}

Pong_TimerNotCleared(c) ==
    /\ Connected(c)
    /\ hsPc[c] = "registered"
    /\ pingTimeout[c] # "undefined"
    /\ pingTimeout' = [pingTimeout EXCEPT ![c] = "undefined"]
    /\ orphanTimers' = [orphanTimers EXCEPT ![c] = IF pingTimeout[c] = "armed" THEN @ + 1 ELSE @]
    /\ timeoutDue' = [timeoutDue EXCEPT ![c] = 0]
    /\ ponged' = [ponged EXCEPT ![c] = TRUE]
    /\ UNCHANGED <<gatewayVars, userId, disconnected, rooms, hsPc, hsUser,
                   joinReq, disconnectHandled, closeReason, intervalDue, registeredAt, now, feedVars,
                   storeVars, sendVars>>
    /\ emitted' = {}

\* The client answers a probe: the 'pong' listener, lines 221-226.
Pong(c) ==
    /\ Connected(c)
    /\ hsPc[c] = "registered"
    /\ pingTimeout[c] # "undefined"
    /\ pingTimeout' = [pingTimeout EXCEPT ![c] = "undefined"]
    /\ timeoutDue' = [timeoutDue EXCEPT ![c] = 0]
    /\ ponged' = [ponged EXCEPT ![c] = TRUE]
    /\ UNCHANGED <<gatewayVars, userId, orphanTimers, disconnected, rooms, hsPc, hsUser,
                   joinReq, disconnectHandled, closeReason, intervalDue, registeredAt, now, feedVars,
                   storeVars, sendVars>>
    /\ emitted' = {}

\* ------------------------------------------------- chat:join, chat:leave ----
\* handleJoinChat, lines 370-381, up to the await of the membership lookup.
\* Without client.userId it throws before the try block; the framework
\* reports that to the client as an 'exception' event.
JoinChat(c, ch) ==
    /\ Connected(c)
    /\ joinReq[c] = Undefined
    /\ IF userId[c] = Undefined
       THEN /\ emitted' = {<<c, "exception">>}
            /\ UNCHANGED joinReq
       ELSE /\ joinReq' = [joinReq EXCEPT ![c] = ch]
            /\ emitted' = {}
    /\ UNCHANGED <<gatewayVars, userId, pingTimeout, orphanTimers, disconnected, rooms,
                   hsPc, hsUser, disconnectHandled, closeReason, beatVars, now, feedVars, storeVars, sendVars>>

JoinResume_NoMembershipCheck(c, dbOk) ==
    /\ joinReq[c] # Undefined
    /\ IF dbOk
       THEN /\ rooms' = JoinRoom(rooms, ChatRoom(joinReq[c]), c)
            /\ emitted' = {}
       ELSE /\ emitted' = {<<c, "chat:error">>, <<c, "exception">>}
            /\ UNCHANGED rooms
    /\ joinReq' = [joinReq EXCEPT ![c] = Undefined]
    /\ UNCHANGED <<gatewayVars, userId, pingTimeout, orphanTimers, disconnected,
                   hsPc, hsUser, disconnectHandled, closeReason, beatVars, now, feedVars, storeVars,
                   sendVars>>

\* handleJoinChat, lines 383-401, after the lookup answered (dbOk: it did not
\* throw). The catch emits chat:error and rethrows, which the framework
\* reports as 'exception'.
JoinResume(c, dbOk) ==
    /\ joinReq[c] # Undefined
    /\ IF dbOk /\ IsMember(userId[c], joinReq[c])
       THEN /\ rooms' = JoinRoom(rooms, ChatRoom(joinReq[c]), c)
            /\ emitted' = {}
       ELSE /\ emitted' = {<<c, "chat:error">>, <<c, "exception">>}
            /\ UNCHANGED rooms
    /\ joinReq' = [joinReq EXCEPT ![c] = Undefined]
    /\ UNCHANGED <<gatewayVars, userId, pingTimeout, orphanTimers, disconnected,
                   hsPc, hsUser, disconnectHandled, closeReason, beatVars, now, feedVars, storeVars, sendVars>>

\* handleLeaveChat, lines 404-419.
LeaveChat(c, ch) ==
    /\ Connected(c)
    /\ userId[c] # Undefined
    /\ c \in rooms[ChatRoom(ch)]
    /\ rooms' = [rooms EXCEPT ![ChatRoom(ch)] = @ \ {c}]
    /\ UNCHANGED <<gatewayVars, userId, pingTimeout, orphanTimers, disconnected,
                   hsPc, hsUser, joinReq, disconnectHandled, closeReason, beatVars, now, feedVars, storeVars,
                   sendVars>>
    /\ emitted' = {}

\* sendNotificationToUser, lines 564-567: server.to(`user:<id>`).emit.
sendNotificationToUser(u) ==
    /\ emitted' = {<<c, "notification">> : c \in rooms[UserRoom(u)]}
    /\ UNCHANGED <<gatewayVars, userId, pingTimeout, orphanTimers, disconnected, rooms,
                   hsPc, hsUser, joinReq, disconnectHandled, closeReason, beatVars, now, feedVars, storeVars, sendVars>>

\* 15 s pass. A timer that is due runs before time goes on.
Tick ==
    /\ now < MaxTime
    /\ \A c \in Sockets :
          /\ pingTimeout[c] = "armed" => timeoutDue[c] > now
          /\ c \in heartbeatIntervals => intervalDue[c] > now
    /\ now' = now + 1
    /\ emitted' = {}
    /\ UNCHANGED <<gatewayVars, socketVars, storeVars, sendVars, feedVars>>

\* ------------------------------------------------------------ the store ----
DirectChat(u, v) == [type |-> "direct", members |-> {u, v}]

InitStore ==
    /\ whoCanMessage = [u \in Users |-> "absent"]
    /\ friends = {}
    /\ messages = <<>>
    /\ files = {}
    /\ chatUpdatedAt = [ch \in ChatIds |-> 0]

\* No message body held: the request has not come, or its validation is over.
NoBody == [len |-> 0, blank |-> TRUE]

IdleOp ==
    [pc |-> "idle", entry |-> "", sender |-> Undefined, chat |-> Undefined,
     body |-> NoBody, hasFile |-> FALSE, replyTo |-> Undefined, fileId |-> Undefined, msgId |-> Undefined,
     touched |-> FALSE, err |-> "", errEmitted |-> FALSE]

InitSend ==
    /\ ops = [o \in OpIds |-> IdleOp]
    /\ roomLog = <<>>
    /\ userLog = {}

IdleRead ==
    [pc |-> "idle", entry |-> "", socket |-> Undefined, reader |-> Undefined,
     chat |-> Undefined, found |-> {}, ids |-> {}, seen |-> 0, prior |-> {}, err |-> ""]

InitReads ==
    /\ reads = EmptyMap
    /\ rops = [r \in ReadIds |-> IdleRead]
    /\ readLog = {}

IdlePostOp ==
    [pc |-> "idle", kind |-> "", actor |-> Undefined, target |-> Undefined,
     liked |-> FALSE, made |-> Undefined, err |-> ""]

InitNotifications ==
    /\ likes = {}
    /\ comments = <<>>
    /\ notifications = {}
    /\ friendRequests = {}
    /\ nops = [n \in PostOpIds |-> IdlePostOp]
    /\ pushLog = <<>>

IdleGroupOp ==
    [pc |-> "idle", kind |-> "", socket |-> Undefined, actor |-> Undefined,
     target |-> Undefined, chat |-> Undefined, removed |-> Undefined, seen |-> 0,
     err |-> ""]

InitGroupOps == gops = [g \in GroupOpIds |-> IdleGroupOp]

InitGateway ==
    /\ InitReads
    /\ InitNotifications
    /\ InitGroupOps
    /\ connectedUsers = EmptyMap
    /\ userLastSeen = EmptyMap
    /\ heartbeatIntervals = {}
    /\ userId = [c \in Sockets |-> Undefined]
    /\ pingTimeout = [c \in Sockets |-> "undefined"]
    /\ orphanTimers = [c \in Sockets |-> 0]
    /\ disconnected = [c \in Sockets |-> FALSE]
    /\ rooms = [r \in Rooms |-> {}]
    /\ hsPc = [c \in Sockets |-> "fresh"]
    /\ hsUser = [c \in Sockets |-> Undefined]
    /\ joinReq = [c \in Sockets |-> Undefined]
    /\ emitted = {}
    /\ disconnectHandled = [c \in Sockets |-> FALSE]
    /\ closeReason = [c \in Sockets |-> ""]
    /\ timeoutDue = [c \in Sockets |-> 0]
    /\ intervalDue = [c \in Sockets |-> 0]
    /\ registeredAt = [c \in Sockets |-> 0]
    /\ ponged = [c \in Sockets |-> FALSE]
    /\ now = 0
    /\ InitStore
    /\ InitSend

\* The gateway starts over a store that holds a conversation of users 1 and
\* 2; the message service starts over one that holds none yet.
InitConn == InitGateway /\ chats = <<DirectChat(1, 2)>>
Init == InitGateway /\ chats = <<>>

\* ------------------------------------------------ ChatService.sendMessage ----
MaxMessageLength == 10000

\* A message body, reduced to what the validation reads: its length and
\* whether trim() leaves nothing.
Contents ==
    {[len |-> 0, blank |-> TRUE], [len |-> 3, blank |-> TRUE],
     [len |-> 3, blank |-> FALSE],
     [len |-> MaxMessageLength, blank |-> FALSE],
     [len |-> MaxMessageLength + 1, blank |-> FALSE]}

ValidMessage_LengthOffByOne(content, hasFile) ==
    /\ ~(content.len > 0 /\ content.len >= MaxMessageLength)
    /\ ~(content.blank /\ ~hasFile)

\* Lines 338-346.
ValidMessage(content, hasFile) ==
    /\ ~(content.len > 0 /\ content.len > MaxMessageLength)
    /\ ~(content.blank /\ ~hasFile)

\* A request ends with an exception. handleMessage catches what is thrown
\* inside its try block, emits message:error to the requesting client and
\* rethrows (gateway lines 319-326); the controller lets it through.
\* A request has ended: its parameters go, its results stay.
Ended(op) ==
    [op EXCEPT !.pc = "done", !.sender = Undefined, !.chat = Undefined,
               !.body = NoBody, !.hasFile = FALSE, !.replyTo = Undefined]

Throw(op, e) == [Ended(op) EXCEPT !.err = e, !.errEmitted = (op.entry = "ws")]

\* The other member of a direct chat, line 370 (Undefined when there is none).
OtherMember(ch, u) ==
    IF \E m \in chats[ch].members : m # u
    THEN CHOOSE m \in chats[ch].members : m # u
    ELSE Undefined

\* The next awaited call after the privacy checks: the reply lookup (line
\* 404), the upload (line 420) or message.create (line 428).
AfterPolicy(op, r) ==
    IF r # Undefined THEN [op EXCEPT !.pc = "reply", !.replyTo = r]
    ELSE IF op.hasFile THEN [op EXCEPT !.pc = "upload"]
    ELSE [op EXCEPT !.pc = "create"]

ReplyIds == {Undefined} \cup (1..NumOps)

\* The request arrives: message:send (gateway lines 250-282) or POST
\* chat/:chatId/messages (controller lines 86-98); sendMessage runs up to its
\* first await. Requests take the op ids in order. A request rejected by the
\* validation keeps what it was rejected for.
StartSend(o, entry, sender, ch, content, hasFile) ==
    /\ ops[o].pc = "idle"
    /\ \A p \in OpIds : p < o => ops[p].pc # "idle"
    /\ entry = "rest" => sender # Undefined
    /\ LET op == [IdleOp EXCEPT !.entry = entry, !.sender = sender, !.chat = ch,
                                !.hasFile = hasFile]
       IN ops' = [ops EXCEPT ![o] =
                     IF sender = Undefined
                     THEN [Ended(op) EXCEPT !.err = "Unauthorized"]
                     ELSE IF ~ValidMessage(content, hasFile)
                     THEN [Throw(op, "BadRequest") EXCEPT !.body = content,
                                                          !.hasFile = hasFile]
                     ELSE [op EXCEPT !.pc = "membership", !.body = content]]
    /\ emitted' = {}
    /\ UNCHANGED <<gatewayVars, socketVars, now, feedVars, storeVars, roomLog, userLog>>

CheckMembership_NoCheck(o, dbOk) ==
    /\ ops[o].pc = "membership"
    /\ ops' = [ops EXCEPT ![o] =
                  IF ~dbOk THEN Throw(@, "PersistenceFailure")
                  ELSE [@ EXCEPT !.pc = "chat", !.body = NoBody]]
    /\ emitted' = {}
    /\ UNCHANGED <<gatewayVars, socketVars, now, feedVars, storeVars, roomLog, userLog>>

\* Lines 349-358: the membership lookup has answered.
CheckMembership(o, dbOk) ==
    /\ ops[o].pc = "membership"
    /\ ops' = [ops EXCEPT ![o] =
                  IF ~dbOk THEN Throw(@, "PersistenceFailure")
                  ELSE IF ~IsMember(@.sender, @.chat) THEN Throw(@, "NotFound")
                  ELSE [@ EXCEPT !.pc = "chat", !.body = NoBody]]
    /\ emitted' = {}
    /\ UNCHANGED <<gatewayVars, socketVars, now, feedVars, storeVars, roomLog, userLog>>

\* Lines 361-376: the chat has been read; a direct chat with another member
\* goes on to read that member's settings.
LoadChat(o, dbOk, r) ==
    /\ ops[o].pc = "chat"
    /\ ops' = [ops EXCEPT ![o] =
                  IF ~dbOk THEN Throw(@, "PersistenceFailure")
                  ELSE IF /\ @.chat \in DOMAIN chats
                          /\ chats[@.chat].type = "direct"
                          /\ OtherMember(@.chat, @.sender) # Undefined
                  THEN [@ EXCEPT !.pc = "settings"]
                  ELSE AfterPolicy(@, r)]
    /\ emitted' = {}
    /\ UNCHANGED <<gatewayVars, socketVars, now, feedVars, storeVars, roomLog, userLog>>

LoadSettings_NobodyUnchecked(o, dbOk, r) ==
    /\ ops[o].pc = "settings"
    /\ LET policy == whoCanMessage[OtherMember(ops[o].chat, ops[o].sender)]
       IN ops' = [ops EXCEPT ![o] =
                     IF ~dbOk THEN Throw(@, "PersistenceFailure")
                     ELSE IF policy = "friends"
                     THEN [@ EXCEPT !.pc = "friendship"]
                     ELSE AfterPolicy(@, r)]
    /\ emitted' = {}
    /\ UNCHANGED <<gatewayVars, socketVars, now, feedVars, storeVars, roomLog, userLog>>

\* Lines 378-391: the settings row of the other member has been read.
LoadSettings(o, dbOk, r) ==
    /\ ops[o].pc = "settings"
    /\ LET policy == whoCanMessage[OtherMember(ops[o].chat, ops[o].sender)]
       IN ops' = [ops EXCEPT ![o] =
                     IF ~dbOk THEN Throw(@, "PersistenceFailure")
                     ELSE IF policy = "nobody"
                     THEN Throw(@, "Forbidden")
                     ELSE IF policy = "friends"
                     THEN [@ EXCEPT !.pc = "friendship"]
                     ELSE AfterPolicy(@, r)]
    /\ emitted' = {}
    /\ UNCHANGED <<gatewayVars, socketVars, now, feedVars, storeVars, roomLog, userLog>>

\* Lines 385-397: the friendship lookup has answered.
CheckFriendship(o, dbOk, r) ==
    /\ ops[o].pc = "friendship"
    /\ LET accepted == {ops[o].sender, OtherMember(ops[o].chat, ops[o].sender)} \in friends
       IN ops' = [ops EXCEPT ![o] =
                     IF ~dbOk THEN Throw(@, "PersistenceFailure")
                     ELSE IF ~accepted
                     THEN Throw(@, "Forbidden")
                     ELSE AfterPolicy(@, r)]
    /\ emitted' = {}
    /\ UNCHANGED <<gatewayVars, socketVars, now, feedVars, storeVars, roomLog, userLog>>

\* Lines 403-414: the message replied to has been looked up.
CheckReply(o, dbOk) ==
    /\ ops[o].pc = "reply"
    /\ LET r == ops[o].replyTo
           found == r \in DOMAIN messages /\ messages[r].chat = ops[o].chat
       IN ops' = [ops EXCEPT ![o] =
                     IF ~dbOk THEN Throw(@, "PersistenceFailure")
                     ELSE IF ~found THEN Throw(@, "BadRequest")
                     ELSE AfterPolicy([@ EXCEPT !.replyTo = Undefined], Undefined)]
    /\ emitted' = {}
    /\ UNCHANGED <<gatewayVars, socketVars, now, feedVars, storeVars, roomLog, userLog>>

\* Lines 419-426: storageService.uploadFile has stored the object and its
\* file row, or failed leaving neither.
UploadFile(o, ok) ==
    /\ ops[o].pc = "upload"
    /\ LET id == Cardinality(files) + 1
       IN IF ok
          THEN /\ files' = files \cup {id}
               /\ ops' = [ops EXCEPT ![o] = [@ EXCEPT !.pc = "create", !.fileId = id]]
          ELSE /\ files' = files
               /\ ops' = [ops EXCEPT ![o] = Throw(@, "StorageUnavailable")]
    /\ emitted' = {}
    /\ UNCHANGED <<gatewayVars, socketVars, now, feedVars, chats, whoCanMessage, friends,
                   messages, chatUpdatedAt, roomLog, userLog>>

CreateMessage_FailureSwallowed(o, ok) ==
    /\ ops[o].pc = "create"
    /\ IF ok
       THEN /\ messages' = Append(messages,
                              [chat |-> ops[o].chat, sender |-> ops[o].sender,
                               fileId |-> ops[o].fileId, op |-> o])
            /\ ops' = [ops EXCEPT ![o] =
                          [@ EXCEPT !.pc = "update", !.msgId = Len(messages) + 1]]
       ELSE /\ messages' = messages
            /\ ops' = [ops EXCEPT ![o] = [@ EXCEPT !.pc = "update"]]
    /\ emitted' = {}
    /\ UNCHANGED <<gatewayVars, socketVars, now, feedVars, chats, whoCanMessage, friends,
                   files, chatUpdatedAt, roomLog, userLog>>

\* Lines 428-448: message.create has committed, or failed.
CreateMessage(o, ok) ==
    /\ ops[o].pc = "create"
    /\ IF ok
       THEN /\ messages' = Append(messages,
                              [chat |-> ops[o].chat, sender |-> ops[o].sender,
                               fileId |-> ops[o].fileId, op |-> o])
            /\ ops' = [ops EXCEPT ![o] =
                          [@ EXCEPT !.pc = "update", !.msgId = Len(messages) + 1]]
       ELSE /\ messages' = messages
            /\ ops' = [ops EXCEPT ![o] = Throw(@, "PersistenceFailure")]
    /\ emitted' = {}
    /\ UNCHANGED <<gatewayVars, socketVars, now, feedVars, chats, whoCanMessage, friends,
                   files, chatUpdatedAt, roomLog, userLog>>

\* Lines 451-454: chat.update of updatedAt has committed, or failed.
UpdateChat(o, ok) ==
    /\ ops[o].pc = "update"
    /\ IF ok
       THEN /\ chatUpdatedAt' = [chatUpdatedAt EXCEPT ![ops[o].chat] = now]
            /\ ops' = [ops EXCEPT ![o] = [@ EXCEPT !.pc = "format", !.touched = TRUE]]
       ELSE /\ chatUpdatedAt' = chatUpdatedAt
            /\ ops' = [ops EXCEPT ![o] = Throw(@, "PersistenceFailure")]
    /\ emitted' = {}
    /\ UNCHANGED <<gatewayVars, socketVars, now, feedVars, chats, whoCanMessage, friends,
                   messages, files, roomLog, userLog>>

\* Lines 456-540: the presigned URLs are fetched and the message is
\* returned. The controller returns it (line 97); the gateway goes on to read
\* the chat's members (lines 287-290).
FormatMessage(o, ok) ==
    /\ ops[o].pc = "format"
    /\ ops' = [ops EXCEPT ![o] =
                  IF ~ok THEN Throw(@, "StorageUnavailable")
                  ELSE IF @.entry = "rest" THEN Ended(@)
                  ELSE [@ EXCEPT !.pc = "members"]]
    /\ emitted' = {}
    /\ UNCHANGED <<gatewayVars, socketVars, now, feedVars, storeVars, roomLog, userLog>>

\* The sockets in the personal rooms of a set of users.
PersonalSockets(us) == UNION {rooms[UserRoom(u)] : u \in us}

\* Gateway lines 287-318: the members have been read; message:new goes to the
\* chat room and to every member's personal room (with conversation:updated).
EmitMessage(o, dbOk) ==
    /\ ops[o].pc = "members"
    /\ IF dbOk
       THEN /\ roomLog' = Append(roomLog, <<ops[o].chat, ops[o].msgId>>)
            /\ userLog' = userLog \cup
                             {<<u, ops[o].msgId>> : u \in chats[ops[o].chat].members}
            /\ ops' = [ops EXCEPT ![o] = Ended(@)]
            /\ emitted' =
                  {<<c, "message:new">> :
                      c \in rooms[ChatRoom(ops[o].chat)]
                              \cup PersonalSockets(chats[ops[o].chat].members)}
                  \cup {<<c, "conversation:updated">> :
                            c \in PersonalSockets(chats[ops[o].chat].members)}
       ELSE /\ UNCHANGED <<roomLog, userLog>>
            /\ ops' = [ops EXCEPT ![o] = Throw(@, "PersistenceFailure")]
            /\ emitted' = {}
    /\ UNCHANGED <<gatewayVars, socketVars, now, feedVars, storeVars>>

\* ----------------------------------------- what sendMessage depends on ----
\* ChatService.getOrCreateChat, lines 120-200; its lookups are taken as one
\* step.
ExistingDirect(u, v) ==
    {ch \in DOMAIN chats : chats[ch].type = "direct" /\ {u, v} \subseteq chats[ch].members}

MayStartChat(u, v) ==
    /\ whoCanMessage[v] # "nobody"
    /\ whoCanMessage[v] = "friends" => {u, v} \in friends

getOrCreateChat(u, v) ==
    /\ ExistingDirect(u, v) = {}
    /\ MayStartChat(u, v)
    /\ Len(chats) < MaxChats
    /\ chats' = Append(chats, DirectChat(u, v))
    /\ emitted' = {}
    /\ UNCHANGED <<gatewayVars, socketVars, now, feedVars, whoCanMessage, friends, messages,
                   files, chatUpdatedAt, sendVars>>

\* UserService.updatePrivacySettings, lines 995-1029: the row is created when
\* missing.
ChatUsers == {1, 2}     \* the users who start a one-to-one conversation
PolicyUsers == {2}      \* the users who change their settings
Policies == {"everyone", "friends", "nobody"}

updatePrivacySettings(u, p) ==
    /\ whoCanMessage[u] # p
    /\ whoCanMessage' = [whoCanMessage EXCEPT ![u] = p]
    /\ emitted' = {}
    /\ UNCHANGED <<gatewayVars, socketVars, now, feedVars, chats, friends, messages, files,
                   chatUpdatedAt, sendVars>>

\* UserService.acceptFriendRequest, lines 555-597 (a pending request of the
\* other user is taken to exist), and removeFriend, lines 643-665.
FriendPairs == {{1, 2}}

acceptFriendRequest(pair) ==
    /\ pair \notin friends
    /\ friends' = friends \cup {pair}
    /\ emitted' = {}
    /\ UNCHANGED <<gatewayVars, socketVars, now, feedVars, chats, whoCanMessage, messages,
                   files, chatUpdatedAt, sendVars>>

removeFriend(pair) ==
    /\ pair \in friends
    /\ friends' = friends \ {pair}
    /\ emitted' = {}
    /\ UNCHANGED <<gatewayVars, socketVars, now, feedVars, chats, whoCanMessage, messages,
                   files, chatUpdatedAt, sendVars>>

NextSend ==
    \/ \E o \in OpIds, entry \in {"ws", "rest"}, sender \in Users \cup {Undefined},
          ch \in ChatIds, content \in Contents, hasFile \in BOOLEAN :
          StartSend(o, entry, sender, ch, content, hasFile)
    \/ \E o \in OpIds, dbOk \in BOOLEAN : CheckMembership(o, dbOk)
    \/ \E o \in OpIds, dbOk \in BOOLEAN, r \in ReplyIds : LoadChat(o, dbOk, r)
    \/ \E o \in OpIds, dbOk \in BOOLEAN, r \in ReplyIds : LoadSettings(o, dbOk, r)
    \/ \E o \in OpIds, dbOk \in BOOLEAN, r \in ReplyIds : CheckFriendship(o, dbOk, r)
    \/ \E o \in OpIds, dbOk \in BOOLEAN : CheckReply(o, dbOk)
    \/ \E o \in OpIds, ok \in BOOLEAN : UploadFile(o, ok)
    \/ \E o \in OpIds, ok \in BOOLEAN : CreateMessage(o, ok)
    \/ \E o \in OpIds, ok \in BOOLEAN : UpdateChat(o, ok)
    \/ \E o \in OpIds, ok \in BOOLEAN : FormatMessage(o, ok)
    \/ \E o \in OpIds, dbOk \in BOOLEAN : EmitMessage(o, dbOk)
    \/ \E u, v \in ChatUsers : u # v /\ getOrCreateChat(u, v)
    \/ \E u \in PolicyUsers, p \in Policies : updatePrivacySettings(u, p)
    \/ \E pair \in FriendPairs : acceptFriendRequest(pair)
    \/ \E pair \in FriendPairs : removeFriend(pair)

SpecSend == Init /\ [][NextSend]_vars

\* ---------------------------------------- the gateway's connection life ----
NextConn ==
    \/ Tick
    \/ \E c \in Sockets, h \in Handshakes : Connect(c, h)
    \/ \E c \in Sockets, dbOk \in BOOLEAN : HandshakeResume(c, dbOk)
    \/ \E c \in Sockets : Disconnect(c)
    \/ \E c \in Sockets : HeartbeatPing(c)
    \/ \E c \in Sockets : HeartbeatTimeout(c)
    \/ \E c \in Sockets : Pong(c)
    \/ \E c \in Sockets, ch \in DOMAIN chats : JoinChat(c, ch)
    \/ \E c \in Sockets, dbOk \in BOOLEAN : JoinResume(c, dbOk)
    \/ \E c \in Sockets, ch \in DOMAIN chats : LeaveChat(c, ch)
    \/ \E u \in Users : sendNotificationToUser(u)

SpecConn == InitConn /\ [][NextConn]_vars

\* ------------------------------------------------------------ presence ----
RegisteredIn(c) == {u \in DOMAIN connectedUsers : c \in connectedUsers[u]}
InSomeRoom(c) == \E r \in Rooms : c \in rooms[r]

\* C1: an identity is online exactly when one of its successfully connected
\* sockets has not disconnected yet: with N successful connections it stays
\* online while fewer than N of them have disconnected, and is offline once
\* all N have.
C1_OnlineIffLiveConnection ==
    \A u \in Users :
        isUserOnline(u) <=>
            \E c \in Sockets :
                hsPc[c] = "registered" /\ userId[c] = u /\ ~disconnected[c]

\* C4: the step that rejects a handshake closes the connection, emits nothing
\* and leaves the presence registry, the last-seen table, the heartbeat
\* timers and the channel memberships as they were.
C4_RejectedHandshakeChangesNothing ==
    [][\A c \in Sockets :
          (hsPc[c] # "rejected" /\ hsPc'[c] = "rejected") =>
              /\ disconnected'[c]
              /\ emitted' = {}
              /\ userId'[c] = Undefined
              /\ UNCHANGED <<connectedUsers, userLastSeen, heartbeatIntervals,
                             pingTimeout, orphanTimers, rooms>>]_vars

\* A handshake was rejected because the token's user has no row, while
\* another connection is registered and holds a room and a heartbeat.
C4_Witness ==
    \E c, d \in Sockets :
        /\ hsPc[c] = "rejected" /\ hsUser[c] = GhostUser
        /\ hsPc[d] = "registered" /\ ~disconnected[d]
        /\ d \in heartbeatIntervals /\ InSomeRoom(d)

\* C5: once handleDisconnect has returned for a connection, its id is in no
\* identity's connection set.
C5_ClosedConnectionNotRegistered ==
    \A c \in Sockets : disconnectHandled[c] => RegisteredIn(c) = {}

Persisted(id) == id \in DOMAIN messages
RoomEmits(ch) == {i \in DOMAIN roomLog : roomLog[i][1] = ch}
BroadcastIds == {roomLog[i][2] : i \in DOMAIN roomLog} \cup {e[2] : e \in userLog}

\* C2: a listener of chat:<id> sees the message:new events of the
\* conversation in the order in which the messages were committed.
C2_BroadcastOrderIsCommitOrder ==
    \A ch \in ChatIds :
        \A i, j \in RoomEmits(ch) : i < j => roomLog[i][2] < roomLog[j][2]

\* C3: every message:new, to a chat room or to a personal room, carries a
\* message that is in the message table, and a send whose message was not
\* created has emitted none.
C3_BroadcastOnlyPersisted ==
    /\ \A i \in DOMAIN roomLog :
          Persisted(roomLog[i][2]) /\ messages[roomLog[i][2]].chat = roomLog[i][1]
    /\ \A e \in userLog : Persisted(e[2])
    /\ \A o \in OpIds :
          ops[o].msgId = Undefined =>
              \A id \in BroadcastIds : Persisted(id) => messages[id].op # o

\* A message:send uploaded its attachment and then failed to create its
\* message, while another message was created and broadcast.
C3_Witness ==
    \E o \in OpIds :
        /\ ops[o].pc = "done" /\ ops[o].entry = "ws"
        /\ ops[o].fileId # Undefined /\ ops[o].msgId = Undefined
        /\ ops[o].errEmitted
        /\ roomLog # <<>>

\* C7: when a send has returned its message, the message has been emitted as
\* message:new to the chat room and to the personal room of every participant.
C7_PersistedIsBroadcast ==
    \A o \in OpIds :
        (ops[o].pc = "done" /\ ops[o].err = "" /\ ops[o].msgId # Undefined) =>
            LET id == ops[o].msgId
                ch == messages[id].chat
            IN /\ \E i \in DOMAIN roomLog : roomLog[i] = <<ch, id>>
               /\ \A u \in chats[ch].members : <<u, id>> \in userLog

\* C8: every uploaded chat attachment is referenced by a message, or belongs
\* to a send that has not ended yet.
C8_NoOrphanAttachment ==
    \A f \in files :
        \/ \E i \in DOMAIN messages : messages[i].fileId = f
        \/ \E o \in OpIds : ops[o].pc # "done" /\ ops[o].fileId = f

\* C9: in a one-to-one conversation every send reads the recipient's policy
\* before anything is persisted; reading 'nobody', or 'friends' without an
\* accepted friendship, ends the send with an error and no message; reading
\* 'friends' with an accepted friendship does not end it as forbidden.
C9_PolicyCheckedAtEverySend ==
    [][\A o \in OpIds :
          LET op == ops[o]
              np == ops'[o]
              moved == np.pc # op.pc
              other == OtherMember(op.chat, op.sender)
              refused == /\ np.pc = "done"
                         /\ np.err \in {"Forbidden", "PersistenceFailure"}
                         /\ np.msgId = Undefined
                         /\ messages' = messages
          IN /\ (op.pc = "chat" /\ moved /\ chats[op.chat].type = "direct") =>
                    np.pc \in {"settings", "done"}
             /\ (op.pc = "settings" /\ moved /\ whoCanMessage[other] = "nobody") => refused
             /\ (op.pc = "settings" /\ moved /\ whoCanMessage[other] = "friends") =>
                    (np.pc = "friendship" \/ refused)
             /\ (op.pc = "friendship" /\ moved /\ {op.sender, other} \notin friends) =>
                    refused
             /\ (op.pc = "friendship" /\ moved /\ {op.sender, other} \in friends) =>
                    np.err # "Forbidden"
             /\ np.err = "Forbidden" => np.msgId = Undefined /\ np.fileId = Undefined
             /\ (np.msgId # op.msgId) => op.pc = "create"]_vars

\* Under policy 'friends', a send of user 1 to user 2 was refused, and a
\* later one, with the friendship accepted, was persisted.
C9_Witness ==
    \E o1, o2 \in OpIds :
        /\ o1 < o2
        /\ ops[o1].err = "Forbidden"
        /\ whoCanMessage[2] = "friends" /\ {1, 2} \in friends
        /\ ops[o2].msgId # Undefined /\ messages[ops[o2].msgId].sender = 1
        /\ ops[o2].pc = "done" /\ ops[o2].err = ""

\* C10: a send by a non-participant ends with the rejection and has uploaded
\* nothing, persisted nothing and not touched the conversation's timestamp;
\* no request gets past the membership check without being a participant, so
\* every message, and with it every broadcast, is a participant's.
C10_NonMemberSendRejected ==
    /\ \A o \in OpIds :
          ops[o].err = "NotFound" =>
              /\ ops[o].pc = "done"
              /\ ops[o].fileId = Undefined /\ ops[o].msgId = Undefined
              /\ ~ops[o].touched
              /\ \A i \in DOMAIN messages : messages[i].op # o
    /\ \A o \in OpIds :
          ops[o].pc \notin {"idle", "membership", "done"} =>
              IsMember(ops[o].sender, ops[o].chat)
    /\ \A i \in DOMAIN messages : IsMember(messages[i].sender, messages[i].chat)
    /\ \A id \in BroadcastIds : Persisted(id)

\* User 3, no participant of the conversation of users 1 and 2, sent to it
\* and was rejected, while a participant's message was persisted.
C10_Witness ==
    \E o \in OpIds :
        /\ ops[o].err = "NotFound" /\ ops[o].errEmitted
        /\ chats # <<>>
        /\ messages # <<>>

\* ------------------------------------------------------------ validation ----
\* C11: a send is rejected by the validation exactly when its body has more
\* than 10,000 characters or is empty with no attachment; a rejected send has
\* uploaded and persisted nothing; a body of exactly 10,000 characters and an
\* empty body with an attachment go on to the membership check.
C11_ValidationRejectsOversizeAndEmpty ==
    \A o \in OpIds :
        LET op == ops[o]
            tooLong == op.body.len > 10000
            nothing == op.body.blank /\ ~op.hasFile
        IN /\ op.err = "BadRequest" =>
                 /\ op.pc = "done" /\ (tooLong \/ nothing)
                 /\ op.fileId = Undefined /\ op.msgId = Undefined /\ ~op.touched
                 /\ \A i \in DOMAIN messages : messages[i].op # o
           /\ op.pc = "membership" => ~tooLong /\ ~nothing

\* One send was rejected for a body of 10,001 characters while another, with
\* a body of exactly 10,000 characters, passed the validation.
C11_Witness ==
    \E o1, o2 \in OpIds :
        /\ ops[o1].err = "BadRequest" /\ ops[o1].body.len = 10001
        /\ ops[o2].pc = "membership" /\ ops[o2].body.len = 10000

\* ------------------------------------------------------------ heartbeat ----
ArmedTimeouts(c) == (IF pingTimeout[c] = "armed" THEN 1 ELSE 0) + orphanTimers[c]

\* C17: a registered connection that has answered no probe does not stay
\* open for more than 45 s (3 units of 15 s) after its registration, and the
\* step that closes a registered connection takes it out of the presence
\* registry and out of every channel.
C17_SilentConnectionClosedIn45s ==
    /\ [](\A c \in Sockets :
            (hsPc[c] = "registered" /\ ~disconnected[c] /\ ~ponged[c]) =>
                now - registeredAt[c] <= 3)
    /\ [][\A c \in Sockets :
            (hsPc[c] = "registered" /\ ~disconnected[c] /\ disconnected'[c]) =>
                /\ \A u \in DOMAIN connectedUsers' : c \notin connectedUsers'[u]
                /\ \A r \in Rooms : c \notin rooms'[r]]_vars

\* A registered connection that answered no probe was closed by the server
\* 15 s after its registration and is in no connection set and no channel.
C17_Witness ==
    \E c \in Sockets :
        /\ hsPc[c] = "registered" /\ ~ponged[c]
        /\ disconnected[c] /\ closeReason[c] = "server namespace disconnect"
        /\ now = registeredAt[c] + 1
        /\ RegisteredIn(c) = {} /\ ~InSomeRoom(c)

\* C18: a connection never has more than one armed timeout timer, and a
\* probe arms a timeout only when none is armed for the connection.
C18_AtMostOneTimeoutTimer ==
    /\ [](\A c \in Sockets : ArmedTimeouts(c) <= 1)
    /\ [][\A c \in Sockets :
            (<<c, "ping">> \in emitted' /\ pingTimeout'[c] = "armed") =>
                ArmedTimeouts(c) = 0]_vars

\* A connection answered its first probe and has been probed again, with
\* one timeout armed.
C18_Witness ==
    \E c \in Sockets :
        /\ ponged[c] /\ ~disconnected[c]
        /\ pingTimeout[c] = "armed" /\ orphanTimers[c] = 0
        /\ timeoutDue[c] = registeredAt[c] + 3

\* C19: once handleDisconnect has returned for a connection, it has no armed
\* interval, no armed timeout and no entry in the heartbeat table.
C19_NoTimerAfterDisconnect ==
    \A c \in Sockets :
        disconnectHandled[c] =>
            c \notin heartbeatIntervals /\ ArmedTimeouts(c) = 0

\* ---------------------------------------------------------------- join ----
\* C20: a connection enters chat:<id> only by the step of its own chat:join,
\* with its identity a member of the conversation at that step; a chat:join
\* of a non-member ends with chat:error and changes no channel.
C20_JoinOnlyForMembers ==
    [][\A c \in Sockets :
          /\ \A ch \in ChatIds :
                (c \notin rooms[ChatRoom(ch)] /\ c \in rooms'[ChatRoom(ch)]) =>
                    joinReq[c] = ch /\ IsMember(userId[c], ch)
          /\ (joinReq[c] # Undefined /\ joinReq'[c] = Undefined
                /\ ~IsMember(userId[c], joinReq[c])) =>
                    rooms' = rooms /\ <<c, "chat:error">> \in emitted']_vars

\* The chat:join of a connection of user 3, no member of the conversation,
\* has just failed, while a member's connection is in the conversation's
\* channel.
C20_Witness ==
    \E c, d \in Sockets :
        /\ userId[c] = 3 /\ <<c, "chat:error">> \in emitted
        /\ c \notin rooms[ChatRoom(1)]
        /\ d \in rooms[ChatRoom(1)] /\ userId[d] = 1

\* ----------------------------------------------------------- read receipts ----
\* Everything the read requests leave alone.
readFrame == <<gatewayVars, socketVars, now, storeVars, sendVars, notifyVars, groupVars>>

\* A read request has ended: what it searched with goes, its result stays.
ReadEnded(op) == [op EXCEPT !.pc = "done", !.found = {}]

\* handleMarkAsRead, lines 453-460: the catch emits messages:read:error to
\* the requesting client and rethrows, which the framework reports to the
\* client as 'exception'; the controller has no catch.
ReadFailed(op, e) == [ReadEnded(op) EXCEPT !.err = e]
ReadErrorEvents(op) ==
    IF op.entry = "ws"
    THEN {<<op.socket, "messages:read:error">>, <<op.socket, "exception">>}
    ELSE {}

\* markMessagesAsRead has returned: the controller returns the result, the
\* gateway goes on to chatMember.findMany (line 437).
ReadReturned(op) ==
    IF op.entry = "ws" THEN [op EXCEPT !.pc = "members", !.found = {}] ELSE ReadEnded(op)

\* The unread messages of a chat for a reader, service lines 608-619: those
\* of other senders with no MessageRead row of the reader.
Unread_IgnoresReceipts(ch, u) ==
    {i \in DOMAIN messages : messages[i].chat = ch /\ messages[i].sender # u}

Unread(ch, u) ==
    {i \in DOMAIN messages :
        /\ messages[i].chat = ch
        /\ messages[i].sender # u
        /\ ~MapHas(reads, <<i, u>>)}

\* createMany with skipDuplicates under the unique index on (messageId,
\* userId), service lines 626-632 and the migration, line 108.
WithReceipts(rd, ids, u) ==
    [p \in DOMAIN rd \cup {<<i, u>> : i \in ids} |-> IF p \in DOMAIN rd THEN rd[p] ELSE 1]

\* messages:read arrives, gateway lines 421-434. Without client.userId it
\* throws before the try block. Requests take the read ids in order.
handleMarkAsRead(r, c, ch) ==
    /\ Connected(c)
    /\ rops[r].pc = "idle"
    /\ \A q \in ReadIds : q < r => rops[q].pc # "idle"
    /\ IF userId[c] = Undefined
       THEN /\ emitted' = {<<c, "exception">>}
            /\ UNCHANGED rops
       ELSE /\ emitted' = {}
            /\ rops' = [rops EXCEPT ![r] =
                          [IdleRead EXCEPT !.pc = "membership", !.entry = "ws",
                                           !.socket = c, !.reader = userId[c], !.chat = ch,
                                           !.prior = {q \in ReadIds : rops[q].pc = "done"}]]
    /\ UNCHANGED <<readFrame, reads, readLog>>

\* POST chat/:chatId/read, controller lines 100-108.
markAsRead(r, u, ch) ==
    /\ rops[r].pc = "idle"
    /\ \A q \in ReadIds : q < r => rops[q].pc # "idle"
    /\ rops' = [rops EXCEPT ![r] =
                  [IdleRead EXCEPT !.pc = "membership", !.entry = "rest",
                                   !.reader = u, !.chat = ch,
                                   !.prior = {q \in ReadIds : rops[q].pc = "done"}]]
    /\ emitted' = {}
    /\ UNCHANGED <<readFrame, reads, readLog>>

\* markMessagesAsRead, lines 595-604: the membership lookup has answered.
ReadMembership(r, dbOk) ==
    /\ rops[r].pc = "membership"
    /\ LET op == rops[r]
           e == IF ~dbOk THEN "PersistenceFailure"
                ELSE IF ~IsMember(op.reader, op.chat) THEN "NotFound" ELSE ""
       IN IF e # ""
          THEN /\ rops' = [rops EXCEPT ![r] = ReadFailed(op, e)]
               /\ emitted' = ReadErrorEvents(op)
          ELSE /\ rops' = [rops EXCEPT ![r] = [op EXCEPT !.pc = "find"]]
               /\ emitted' = {}
    /\ UNCHANGED <<readFrame, reads, readLog>>

FindUnread_IgnoresReceipts(r, dbOk) ==
    /\ rops[r].pc = "find"
    /\ LET op == rops[r]
           unread == Unread_IgnoresReceipts(op.chat, op.reader)
       IN IF ~dbOk
          THEN /\ rops' = [rops EXCEPT ![r] = ReadFailed(op, "PersistenceFailure")]
               /\ emitted' = ReadErrorEvents(op)
          ELSE /\ rops' = [rops EXCEPT ![r] =
                             IF unread = {}
                             THEN ReadReturned([op EXCEPT !.seen = Len(messages)])
                             ELSE [op EXCEPT !.pc = "insert", !.found = unread,
                                             !.seen = Len(messages)]]
               /\ emitted' = {}
    /\ UNCHANGED <<readFrame, reads, readLog>>

\* markMessagesAsRead, lines 607-623: message.findMany has answered; with
\* nothing unread the call returns count 0.
FindUnread(r, dbOk) ==
    /\ rops[r].pc = "find"
    /\ LET op == rops[r]
           unread == Unread(op.chat, op.reader)
       IN IF ~dbOk
          THEN /\ rops' = [rops EXCEPT ![r] = ReadFailed(op, "PersistenceFailure")]
               /\ emitted' = ReadErrorEvents(op)
          ELSE /\ rops' = [rops EXCEPT ![r] =
                             IF unread = {}
                             THEN ReadReturned([op EXCEPT !.seen = Len(messages)])
                             ELSE [op EXCEPT !.pc = "insert", !.found = unread,
                                             !.seen = Len(messages)]]
               /\ emitted' = {}
    /\ UNCHANGED <<readFrame, reads, readLog>>

\* markMessagesAsRead, lines 625-636: messageRead.createMany has answered; the
\* call returns the ids it had found.
CreateReads(r, ok) ==
    /\ rops[r].pc = "insert"
    /\ LET op == rops[r]
       IN IF ok
          THEN /\ reads' = WithReceipts(reads, op.found, op.reader)
               /\ rops' = [rops EXCEPT ![r] = ReadReturned([op EXCEPT !.ids = op.found])]
               /\ emitted' = {}
          ELSE /\ rops' = [rops EXCEPT ![r] = ReadFailed(op, "PersistenceFailure")]
               /\ emitted' = ReadErrorEvents(op)
               /\ UNCHANGED reads
    /\ UNCHANGED <<readFrame, readLog>>

EmitRead_ToEveryMember(r, dbOk) ==
    /\ rops[r].pc = "members"
    /\ LET op == rops[r]
           others == chats[op.chat].members
       IN IF dbOk
          THEN /\ rops' = [rops EXCEPT ![r] = ReadEnded(op)]
               /\ readLog' = readLog \cup
                     {[to |-> m, ids |-> op.ids, readBy |-> op.reader, op |-> r] : m \in others}
               /\ emitted' = {<<c, "messages:read">> :
                                 c \in UNION {rooms[UserRoom(m)] : m \in others}}
          ELSE /\ rops' = [rops EXCEPT ![r] = ReadFailed(op, "PersistenceFailure")]
               /\ emitted' = ReadErrorEvents(op)
               /\ UNCHANGED readLog
    /\ UNCHANGED <<readFrame, reads>>

\* handleMarkAsRead, lines 436-451: chatMember.findMany has answered; the
\* event goes to the personal room of every member but the reader.
EmitRead(r, dbOk) ==
    /\ rops[r].pc = "members"
    /\ LET op == rops[r]
           others == chats[op.chat].members \ {op.reader}
       IN IF dbOk
          THEN /\ rops' = [rops EXCEPT ![r] = ReadEnded(op)]
               /\ readLog' = readLog \cup
                     {[to |-> m, ids |-> op.ids, readBy |-> op.reader, op |-> r] : m \in others}
               /\ emitted' = {<<c, "messages:read">> :
                                 c \in UNION {rooms[UserRoom(m)] : m \in others}}
          ELSE /\ rops' = [rops EXCEPT ![r] = ReadFailed(op, "PersistenceFailure")]
               /\ emitted' = ReadErrorEvents(op)
               /\ UNCHANGED readLog
    /\ UNCHANGED <<readFrame, reads>>

\* The read receipts are followed over a store with one conversation, of
\* users 1 and 3, each socket registered at time 0 for one of them, and every
\* send request suspended at message.create.
SocketUser(c) == IF c % 2 = 1 THEN 1 ELSE 3

InitRegistered ==
    /\ connectedUsers = [u \in {SocketUser(c) : c \in Sockets} |->
                            {c \in Sockets : SocketUser(c) = u}]
    /\ userLastSeen = [u \in {SocketUser(c) : c \in Sockets} |-> 0]
    /\ heartbeatIntervals = Sockets
    /\ userId = [c \in Sockets |-> SocketUser(c)]
    /\ pingTimeout = [c \in Sockets |-> "armed"]
    /\ orphanTimers = [c \in Sockets |-> 0]
    /\ disconnected = [c \in Sockets |-> FALSE]
    /\ rooms = [r \in Rooms |-> {c \in Sockets : r = UserRoom(SocketUser(c))}]
    /\ hsPc = [c \in Sockets |-> "registered"]
    /\ hsUser = [c \in Sockets |-> SocketUser(c)]
    /\ joinReq = [c \in Sockets |-> Undefined]
    /\ emitted = {}
    /\ disconnectHandled = [c \in Sockets |-> FALSE]
    /\ closeReason = [c \in Sockets |-> ""]
    /\ timeoutDue = [c \in Sockets |-> heartbeatTimeout]
    /\ intervalDue = [c \in Sockets |-> heartbeatInterval]
    /\ registeredAt = [c \in Sockets |-> 0]
    /\ ponged = [c \in Sockets |-> FALSE]
    /\ now = 0

InitRead ==
    /\ InitRegistered
    /\ InitStore
    /\ chats = <<DirectChat(1, 3)>>
    /\ ops = [o \in OpIds |->
                [IdleOp EXCEPT !.pc = "create", !.entry = "rest",
                               !.sender = SocketUser(o), !.chat = 1]]
    /\ roomLog = <<>>
    /\ userLog = {}
    /\ InitReads
    /\ InitNotifications
    /\ InitGroupOps

NextRead ==
    \/ \E r \in ReadIds, c \in Sockets, ch \in ChatIds : handleMarkAsRead(r, c, ch)
    \/ \E r \in ReadIds, u \in {1, 3}, ch \in ChatIds : markAsRead(r, u, ch)
    \/ \E r \in ReadIds, dbOk \in BOOLEAN : ReadMembership(r, dbOk)
    \/ \E r \in ReadIds, dbOk \in BOOLEAN : FindUnread(r, dbOk)
    \/ \E r \in ReadIds, ok \in BOOLEAN : CreateReads(r, ok)
    \/ \E r \in ReadIds, dbOk \in BOOLEAN : EmitRead(r, dbOk)
    \/ \E o \in OpIds, ok \in BOOLEAN : CreateMessage(o, ok)
    \/ \E c \in Sockets : Disconnect(c)

SpecRead == InitRead /\ [][NextRead]_vars

\* C12: when a markMessagesAsRead call starts after another call for the
\* same reader and conversation has returned, and no message was committed
\* between the two searches, the second call returns no id; and no (message,
\* reader) pair ever has more than one receipt.
C12_MarkReadIdempotent ==
    /\ \A p \in DOMAIN reads : reads[p] = 1
    /\ \A r1, r2 \in ReadIds :
          (/\ r1 \in rops[r2].prior
           /\ rops[r1].err = "" /\ rops[r2].err = ""
           /\ rops[r2].pc \in {"members", "done"}
           /\ rops[r1].reader = rops[r2].reader /\ rops[r1].chat = rops[r2].chat
           /\ rops[r1].seen = rops[r2].seen)
              => rops[r2].ids = {}

\* A reader marked a conversation read and got the ids of its unread
\* messages; the next call, with no new message, returned.
C12_Witness ==
    \E r1, r2 \in ReadIds :
        /\ r1 \in rops[r2].prior
        /\ rops[r1].err = "" /\ rops[r2].err = "" /\ rops[r2].pc = "done"
        /\ rops[r1].reader = rops[r2].reader
        /\ rops[r1].seen = rops[r2].seen
        /\ rops[r1].ids # {}

postFrame == <<gatewayVars, socketVars, now, storeVars, sendVars, readVars, groupVars>>

Posts == {1}
PostAuthor(p) == 1

\* The suppression windows, in units of 15 s: 24 h for post_like
\* (NotificationService line 138) and 5 min for post_comment (line 165).
LikeWindow == 5760
CommentWindow == 20

Recent(n, window) == n.createdAt >= now - window

\* The rows notifyPostLike and notifyPostComment look for (lines 131-140 and
\* 158-167), and that toggleLike deletes on unlike (post.module.ts 858-868).
RecentNotifications(u, type, source, window) ==
    {n \in notifications :
        n.userId = u /\ n.type = type /\ n.sourceId = source /\ Recent(n, window)}

PostOpEnded(op) == [op EXCEPT !.pc = "done"]
PostOpFailed(op, e) == [op EXCEPT !.pc = "done", !.err = e]

\* What a step that creates no notification changes of the notification state.
Step(n, op) ==
    /\ nops' = [nops EXCEPT ![n] = op]
    /\ emitted' = {}
    /\ UNCHANGED <<postFrame, pushLog>>

\* POST toggle like, post.module.ts lines 823-832, up to post.findUnique.
\* Requests take the request ids in order.
toggleLike(n, u, p) ==
    /\ nops[n].pc = "idle"
    /\ \A m \in PostOpIds : m < n => nops[m].pc # "idle"
    /\ Step(n, [IdlePostOp EXCEPT !.pc = "post", !.kind = "like", !.actor = u, !.target = p])
    /\ UNCHANGED <<likes, comments, notifications, friendRequests>>

\* createComment, comment.service.ts lines 100-115, up to post.findUnique.
createComment(n, u, p) ==
    /\ nops[n].pc = "idle"
    /\ \A m \in PostOpIds : m < n => nops[m].pc # "idle"
    /\ Step(n, [IdlePostOp EXCEPT !.pc = "post", !.kind = "comment", !.actor = u,
                                  !.target = p])
    /\ UNCHANGED <<likes, comments, notifications, friendRequests>>

\* deleteComment, comment.service.ts lines 281-291, up to comment.findUnique.
deleteComment(n, u, cid) ==
    /\ nops[n].pc = "idle"
    /\ \A m \in PostOpIds : m < n => nops[m].pc # "idle"
    /\ Step(n, [IdlePostOp EXCEPT !.pc = "findComment", !.kind = "deleteComment",
                                  !.actor = u, !.target = cid])
    /\ UNCHANGED <<likes, comments, notifications, friendRequests>>

\* sendFriendRequest, user.service.ts lines 490-498: a request to oneself is
\* refused before anything is read.
sendFriendRequest(n, u, t) ==
    /\ nops[n].pc = "idle"
    /\ \A m \in PostOpIds : m < n => nops[m].pc # "idle"
    /\ LET op == [IdlePostOp EXCEPT !.kind = "friend", !.actor = u, !.target = t]
       IN Step(n, IF u = t THEN PostOpFailed(op, "BadRequest")
                  ELSE [op EXCEPT !.pc = "target"])
    /\ UNCHANGED <<likes, comments, notifications, friendRequests>>

\* post.findUnique has answered (post.module.ts 827-837, comment.service.ts
\* 112-119).
LoadPost(n, ok) ==
    /\ nops[n].pc = "post"
    /\ Step(n, IF ~ok THEN PostOpFailed(nops[n], "PersistenceFailure")
               ELSE IF nops[n].target \notin Posts THEN PostOpFailed(nops[n], "NotFound")
               ELSE IF nops[n].kind = "like" THEN [nops[n] EXCEPT !.pc = "findLike"]
               ELSE [nops[n] EXCEPT !.pc = "comment"])
    /\ UNCHANGED <<likes, comments, notifications, friendRequests>>

\* toggleLike, lines 839-848: like.findUnique has answered.
FindLike(n, ok) ==
    /\ nops[n].pc = "findLike"
    /\ Step(n, IF ~ok THEN PostOpFailed(nops[n], "PersistenceFailure")
               ELSE IF <<nops[n].actor, nops[n].target>> \in likes
               THEN [nops[n] EXCEPT !.pc = "unlike"]
               ELSE [nops[n] EXCEPT !.pc = "like"])
    /\ UNCHANGED <<likes, comments, notifications, friendRequests>>

\* toggleLike, lines 850-857: like.delete, which fails when the row is gone.
DeleteLike(n, ok) ==
    /\ nops[n].pc = "unlike"
    /\ LET op == nops[n]
           row == <<op.actor, op.target>>
       IN IF ok /\ row \in likes
          THEN /\ likes' = likes \ {row}
               /\ Step(n, [op EXCEPT !.pc = IF PostAuthor(op.target) # op.actor
                                             THEN "unnotify" ELSE "count"])
          ELSE /\ Step(n, PostOpFailed(op, "PersistenceFailure"))
               /\ UNCHANGED likes
    /\ UNCHANGED <<comments, notifications, friendRequests>>

\* toggleLike, lines 858-869: notification.deleteMany for the post's like.
DeleteLikeNotification(n, ok) ==
    /\ nops[n].pc = "unnotify"
    /\ LET op == nops[n]
       IN IF ok
          THEN /\ notifications' = notifications \
                     RecentNotifications(PostAuthor(op.target), "post_like", op.target,
                                         LikeWindow)
               /\ Step(n, [op EXCEPT !.pc = "count"])
          ELSE /\ Step(n, PostOpFailed(op, "PersistenceFailure"))
               /\ UNCHANGED notifications
    /\ UNCHANGED <<likes, comments, friendRequests>>

\* toggleLike, lines 882-887: like.create, which the unique index on (userId,
\* postId) fails when the row exists.
CreateLike(n, ok) ==
    /\ nops[n].pc = "like"
    /\ LET op == nops[n]
           row == <<op.actor, op.target>>
       IN IF ok /\ row \notin likes
          THEN /\ likes' = likes \cup {row}
               /\ Step(n, [op EXCEPT !.pc = "count", !.liked = TRUE])
          ELSE /\ Step(n, PostOpFailed(op, "PersistenceFailure"))
               /\ UNCHANGED likes
    /\ UNCHANGED <<comments, notifications, friendRequests>>

CountLikes_NotifiesSelf(n, ok) ==
    /\ nops[n].pc = "count"
    /\ Step(n, IF ~ok THEN PostOpFailed(nops[n], "PersistenceFailure")
               ELSE IF nops[n].liked
               THEN [nops[n] EXCEPT !.pc = "liker"]
               ELSE PostOpEnded(nops[n]))
    /\ UNCHANGED <<likes, comments, notifications, friendRequests>>

\* toggleLike, lines 872-879 and 890-895: like.count has answered; after a
\* like of somebody else's post the liker is looked up.
CountLikes(n, ok) ==
    /\ nops[n].pc = "count"
    /\ Step(n, IF ~ok THEN PostOpFailed(nops[n], "PersistenceFailure")
               ELSE IF nops[n].liked /\ PostAuthor(nops[n].target) # nops[n].actor
               THEN [nops[n] EXCEPT !.pc = "liker"]
               ELSE PostOpEnded(nops[n]))
    /\ UNCHANGED <<likes, comments, notifications, friendRequests>>

\* toggleLike, lines 896-901: user.findUnique has answered; notifyPostLike
\* runs up to its notification.findFirst.
LoadLiker(n, ok) ==
    /\ nops[n].pc = "liker"
    /\ Step(n, IF ~ok THEN PostOpFailed(nops[n], "PersistenceFailure")
               ELSE [nops[n] EXCEPT !.pc = "dedup"])
    /\ UNCHANGED <<likes, comments, notifications, friendRequests>>

\* createComment, lines 121-156: comment.create has answered; for somebody
\* else's post notifyPostComment runs up to its notification.findFirst.
CreateComment(n, ok) ==
    /\ nops[n].pc = "comment"
    /\ LET op == nops[n]
       IN IF ok
          THEN /\ comments' = Append(comments, [author |-> op.actor, post |-> op.target,
                                               live |-> TRUE])
               /\ Step(n, IF PostAuthor(op.target) # op.actor
                          THEN [op EXCEPT !.pc = "dedup", !.made = Len(comments) + 1]
                          ELSE [PostOpEnded(op) EXCEPT !.made = Len(comments) + 1])
          ELSE /\ Step(n, PostOpFailed(op, "PersistenceFailure"))
               /\ UNCHANGED comments
    /\ UNCHANGED <<likes, notifications, friendRequests>>

\* notifyPostLike, lines 131-152, and notifyPostComment, lines 158-179:
\* notification.findFirst has answered; a recent row suppresses the new one.
FindRecent(n, ok) ==
    /\ nops[n].pc = "dedup"
    /\ LET op == nops[n]
           found == IF op.kind = "like"
                    THEN RecentNotifications(PostAuthor(op.target), "post_like", op.target,
                                             LikeWindow)
                    ELSE RecentNotifications(PostAuthor(op.target), "post_comment",
                                             op.target, CommentWindow)
       IN Step(n, IF ~ok THEN PostOpFailed(op, "PersistenceFailure")
                  ELSE IF found # {} THEN PostOpEnded(op)
                  ELSE [op EXCEPT !.pc = "notify"])
    /\ UNCHANGED <<likes, comments, notifications, friendRequests>>

NotificationType(kind) ==
    IF kind = "like" THEN "post_like"
    ELSE IF kind = "comment" THEN "post_comment"
    ELSE "friend_request"

\* The recipient of the notification of a request: the author of the post,
\* or the target of the friend request.
Recipient(op) == IF op.kind = "friend" THEN op.target ELSE PostAuthor(op.target)

\* createNotification, lines 21-42: notification.create has answered and the
\* row is pushed to the recipient's personal room.
createNotification(n, ok) ==
    /\ nops[n].pc = "notify"
    /\ LET op == nops[n]
           row == [id |-> Len(pushLog) + 1, userId |-> Recipient(op),
                   type |-> NotificationType(op.kind),
                   sourceId |-> IF op.kind = "friend" THEN op.actor ELSE op.target,
                   actor |-> op.actor, cause |-> op.made, createdAt |-> now]
       IN IF ok
          THEN /\ notifications' = notifications \cup {row}
               /\ pushLog' = Append(pushLog, row)
               /\ emitted' = {<<c, "notification">> : c \in rooms[UserRoom(row.userId)]}
               /\ nops' = [nops EXCEPT ![n] = PostOpEnded(op)]
          ELSE /\ nops' = [nops EXCEPT ![n] = PostOpFailed(op, "PersistenceFailure")]
               /\ emitted' = {}
               /\ UNCHANGED <<notifications, pushLog>>
    /\ UNCHANGED <<postFrame, likes, comments, friendRequests>>

\* deleteComment, lines 282-306: comment.findUnique has answered.
FindComment(n, ok) ==
    /\ nops[n].pc = "findComment"
    /\ LET op == nops[n]
           cid == op.target
       IN Step(n, IF ~ok THEN PostOpFailed(op, "PersistenceFailure")
                  ELSE IF cid \notin DOMAIN comments \/ ~comments[cid].live
                  THEN PostOpFailed(op, "NotFound")
                  ELSE IF comments[cid].author # op.actor
                          /\ PostAuthor(comments[cid].post) # op.actor
                  THEN PostOpFailed(op, "Forbidden")
                  ELSE [op EXCEPT !.pc = "delete"])
    /\ UNCHANGED <<likes, comments, notifications, friendRequests>>

\* deleteComment, lines 308-326: the transaction deletes the notifications
\* with type 'comment' and the comment's id as sourceId, then the comment.
DeleteCommentTx(n, ok) ==
    /\ nops[n].pc = "delete"
    /\ LET op == nops[n]
           cid == op.target
       IN IF ok /\ comments[cid].live
          THEN /\ notifications' =
                     {r \in notifications : ~(r.type = "comment" /\ r.sourceId = cid)}
               /\ comments' = [comments EXCEPT ![cid].live = FALSE]
               /\ Step(n, PostOpEnded(op))
          ELSE /\ Step(n, PostOpFailed(op, "PersistenceFailure"))
               /\ UNCHANGED <<comments, notifications>>
    /\ UNCHANGED <<likes, friendRequests>>

\* sendFriendRequest, lines 495-512: both users have been looked up.
LoadTarget(n, ok) ==
    /\ nops[n].pc = "target"
    /\ Step(n, IF ~ok THEN PostOpFailed(nops[n], "PersistenceFailure")
               ELSE IF nops[n].target \notin Users THEN PostOpFailed(nops[n], "NotFound")
               ELSE [nops[n] EXCEPT !.pc = "existing"])
    /\ UNCHANGED <<likes, comments, notifications, friendRequests>>

\* sendFriendRequest, lines 515-530: friendShip.findFirst has answered.
FindFriendship(n, ok) ==
    /\ nops[n].pc = "existing"
    /\ LET op == nops[n]
       IN Step(n, IF ~ok THEN PostOpFailed(op, "PersistenceFailure")
                  ELSE IF {op.actor, op.target} \in friends
                          \/ <<op.actor, op.target>> \in friendRequests
                          \/ <<op.target, op.actor>> \in friendRequests
                  THEN PostOpFailed(op, "BadRequest")
                  ELSE [op EXCEPT !.pc = "request"])
    /\ UNCHANGED <<likes, comments, notifications, friendRequests>>

\* sendFriendRequest, lines 533-546: friendShip.create has answered;
\* notifyFriendRequest runs up to notification.create.
CreateFriendship(n, ok) ==
    /\ nops[n].pc = "request"
    /\ LET op == nops[n]
       IN IF ok
          THEN /\ friendRequests' = friendRequests \cup {<<op.actor, op.target>>}
               /\ Step(n, [op EXCEPT !.pc = "notify"])
          ELSE /\ Step(n, PostOpFailed(op, "PersistenceFailure"))
               /\ UNCHANGED friendRequests
    /\ UNCHANGED <<likes, comments, notifications>>

NextNotify ==
    \/ \E n \in PostOpIds, u \in Users, p \in Posts : toggleLike(n, u, p)
    \/ \E n \in PostOpIds, u \in Users, p \in Posts : createComment(n, u, p)
    \/ \E n \in PostOpIds, u \in Users, cid \in 1..NumPostOps : deleteComment(n, u, cid)
    \/ \E n \in PostOpIds, u, t \in Users : sendFriendRequest(n, u, t)
    \/ \E n \in PostOpIds, ok \in BOOLEAN : LoadPost(n, ok)
    \/ \E n \in PostOpIds, ok \in BOOLEAN : FindLike(n, ok)
    \/ \E n \in PostOpIds, ok \in BOOLEAN : DeleteLike(n, ok)
    \/ \E n \in PostOpIds, ok \in BOOLEAN : DeleteLikeNotification(n, ok)
    \/ \E n \in PostOpIds, ok \in BOOLEAN : CreateLike(n, ok)
    \/ \E n \in PostOpIds, ok \in BOOLEAN : CountLikes(n, ok)
    \/ \E n \in PostOpIds, ok \in BOOLEAN : LoadLiker(n, ok)
    \/ \E n \in PostOpIds, ok \in BOOLEAN : CreateComment(n, ok)
    \/ \E n \in PostOpIds, ok \in BOOLEAN : FindRecent(n, ok)
    \/ \E n \in PostOpIds, ok \in BOOLEAN : createNotification(n, ok)
    \/ \E n \in PostOpIds, ok \in BOOLEAN : FindComment(n, ok)
    \/ \E n \in PostOpIds, ok \in BOOLEAN : DeleteCommentTx(n, ok)
    \/ \E n \in PostOpIds, ok \in BOOLEAN : LoadTarget(n, ok)
    \/ \E n \in PostOpIds, ok \in BOOLEAN : FindFriendship(n, ok)
    \/ \E n \in PostOpIds, ok \in BOOLEAN : CreateFriendship(n, ok)
    \/ Tick

SpecNotify == Init /\ [][NextNotify]_vars

\* The live post_like rows of a post's author for the post.
LikeRecords(p) ==
    {r \in notifications :
        r.userId = PostAuthor(p) /\ r.type = "post_like" /\ r.sourceId = p}

\* The pushes of post_like notifications for a post whose row is still there.
LikePushes(p) ==
    {i \in DOMAIN pushLog :
        pushLog[i].type = "post_like" /\ pushLog[i].sourceId = p
        /\ pushLog[i] \in notifications}

\* C14: likes of one post within the 24 h window, with no unlike in between,
\* leave one post_like row for (author, post) and one push: at any time at
\* most one post_like row of the post is live, pushed once.
C14_OneLikeNotificationPerWindow ==
    \A p \in Posts :
        /\ Cardinality(LikeRecords(p)) <= 1
        /\ Cardinality(LikePushes(p)) <= 1

\* C15: deleting a comment removes the notification row the comment
\* produced: every live post_comment row was caused by a comment that is
\* still there.
C15_DeletedCommentLeavesNoNotification ==
    \A r \in notifications :
        r.type = "post_comment" => comments[r.cause].live

\* C16: no notification row is created and none is pushed whose recipient is
\* the actor who caused it.
C16_NoSelfNotification ==
    /\ \A r \in notifications : r.userId # r.actor
    /\ \A i \in DOMAIN pushLog : pushLog[i].userId # pushLog[i].actor

\* The author has liked the own post, the request has returned, and the only
\* notification is the one of somebody else's like.
C16_Witness ==
    /\ <<PostAuthor(1), 1>> \in likes
    /\ \E n \in PostOpIds :
        /\ nops[n].kind = "like" /\ nops[n].actor = PostAuthor(1)
        /\ nops[n].pc = "done" /\ nops[n].err = "" /\ nops[n].liked
    /\ Len(pushLog) = 1
    /\ pushLog[1].actor # PostAuthor(1)

\* ----------------------------------------------------- presence events ----
\* C21: when the first connection of an identity is registered a
\* presence:online event is emitted, when its last connection is unregistered
\* a presence:offline event is emitted, and last-seen is stamped with the
\* current time at both moments.
C21_PresenceEventsEmitted ==
    [][\A u \in Users :
          /\ (~isUserOnline(u) /\ isUserOnline(u)') =>
                /\ \E e \in emitted' : e[2] = "presence:online"
                /\ getUserLastSeen(u)' = now'
          /\ (isUserOnline(u) /\ ~isUserOnline(u)') =>
                /\ \E e \in emitted' : e[2] = "presence:offline"
                /\ getUserLastSeen(u)' = now']_vars

\* ------------------------------------------------- repeated disconnect ----
\* What a further run of handleDisconnect (lines 162-179) for a socket would
\* change of the registry and the stamps: nothing.
SecondCleanupIsNoOp(c) ==
    /\ UnregisterSocket(connectedUsers, userId[c], c) = connectedUsers
    /\ StampOffline(userLastSeen, connectedUsers, userId[c], c) = userLastSeen

\* Lines 181-192 of a further run find no armed timer and no interval.
HeartbeatCleanupIsNoOp(c) ==
    userId[c] # Undefined => c \notin heartbeatIntervals /\ pingTimeout[c] # "armed"

\* C22: running the disconnect cleanup a second time for a connection is a
\* no-op: right after the first run, and at any later time while the
\* connection stays unregistered, it would leave every connection set, the
\* online status, the last-seen stamps and the heartbeat table as they are.
C22_DisconnectIdempotent ==
    /\ [](\A c \in Sockets :
            disconnectHandled[c] /\ RegisteredIn(c) = {} => SecondCleanupIsNoOp(c))
    /\ [][\A c \in Sockets :
            ~disconnectHandled[c] /\ disconnectHandled'[c] =>
                SecondCleanupIsNoOp(c)' /\ HeartbeatCleanupIsNoOp(c)']_vars

\* A registered connection was closed some time ago while another connection
\* of the same identity is still registered: the second run finds the
\* identity's set.
C22_Witness ==
    \E c \in Sockets :
        /\ disconnectHandled[c] /\ userId[c] # Undefined
        /\ MapHas(connectedUsers, userId[c])
        /\ c \notin connectedUsers[userId[c]]
        /\ now > registeredAt[c]

\* ----------------------------------------------------- error reporting ----
\* C23: when a request of a connection fails (its handler throws, which the
\* client sees as 'exception'), the error event of the operation is emitted
\* to the requesting connection, nothing is emitted to another connection,
\* and the requesting connection is not closed.
C23_FailureReportedToRequester ==
    [][\A c \in Sockets :
          <<c, "exception">> \in emitted' =>
              /\ \E ev \in {"message:error", "chat:error", "messages:read:error"} :
                    <<c, ev>> \in emitted'
              /\ \A e \in emitted' : e[1] = c
              /\ disconnected'[c] = disconnected[c]]_vars

\* -------------------------------------------------------- last activity ----
\* C24: the conversation's last-activity timestamp is updated as one logical
\* operation with the persistence of the message: once a send has ended,
\* having succeeded or failed, its message is not persisted without the
\* timestamp having been advanced for it.
C24_LastActivityWithPersistence ==
    \A o \in OpIds :
        (ops[o].pc = "done" /\ ops[o].msgId # Undefined) =>
            Persisted(ops[o].msgId) /\ ops[o].touched

\* -------------------------------------------------- concurrent receipts ----
\* C25: of two markMessagesAsRead calls for the same reader and conversation,
\* also when they overlap, at most one returns a message id as newly read.
C25_NewlyReadByOneCall ==
    \A r1, r2 \in ReadIds :
        (/\ r1 # r2
         /\ rops[r1].reader = rops[r2].reader
         /\ rops[r1].chat = rops[r2].chat)
            => rops[r1].ids \cap rops[r2].ids = {}

\* --------------------------------------------- concurrent notifications ----
\* The suppression window of a notification type.
Window(type) == IF type = "post_like" THEN LikeWindow ELSE CommentWindow

\* The pushes made for a post with a notification type whose row is live and
\* within the window.
RecentPushes(type, p) ==
    {i \in DOMAIN pushLog :
        pushLog[i] \in RecentNotifications(PostAuthor(p), type, p, Window(type))}

\* C26: also when the likes of, or the comments on, a post overlap, at most
\* one notification row with the same recipient, type and source is created
\* within the suppression window, and at most one notification is pushed.
C26_OneNotificationPerSource ==
    \A type \in {"post_like", "post_comment"}, p \in Posts :
        /\ Cardinality(RecentNotifications(PostAuthor(p), type, p, Window(type))) <= 1
        /\ Cardinality(RecentPushes(type, p)) <= 1

\* ------------------------------------------------- acknowledged probes ----
\* C27: a connection that acknowledges its probes in time is not closed by the
\* heartbeat monitor: an acknowledgment leaves no timeout armed, the monitor
\* closes a connection only when its armed timeout has run its 15 s, and a
\* registered connection that is open stays in the registry with its next
\* probe at most 30 s away.
C27_AcknowledgedConnectionStaysOpen ==
    /\ [][\A c \in Sockets :
            ((~ponged[c] /\ ponged'[c])
                \/ (pingTimeout[c] = "armed" /\ pingTimeout'[c] = "undefined"
                      /\ ~disconnected'[c])) =>
                    ArmedTimeouts(c)' = 0 /\ ~disconnected'[c]]_vars
    /\ [][\A c \in Sockets :
            (~disconnected[c] /\ disconnected'[c] /\ hsPc[c] = "registered"
                /\ closeReason'[c] = "server namespace disconnect") =>
                    pingTimeout[c] = "armed" /\ timeoutDue[c] = now]_vars
    /\ [](\A c \in Sockets :
            (hsPc[c] = "registered" /\ ~disconnected[c]) =>
                /\ c \in connectedUsers[userId[c]]
                /\ c \in heartbeatIntervals
                /\ intervalDue[c] >= now /\ intervalDue[c] <= now + heartbeatInterval)

\* A connection has acknowledged its probes for 45 s and more: it is open,
\* registered, and no timeout is armed.
C27_Witness ==
    \E c \in Sockets :
        /\ hsPc[c] = "registered" /\ ~disconnected[c] /\ ponged[c]
        /\ now - registeredAt[c] >= 2 * heartbeatTimeout + 1
        /\ timeoutDue[c] = 0 /\ pingTimeout[c] = "undefined"
        /\ c \in connectedUsers[userId[c]]

\* --------------------------------------------------- group conversations ----
\* A group conversation with its owner; the other members have the role
\* MEMBER.
GroupChat(owner, members) == [type |-> "group", members |-> members, owner |-> owner]

\* Everything a member removal leaves alone, and everything a typing signal
\* or a group update does.
groupFrame == <<gatewayVars, socketVars, now, whoCanMessage, friends, messages, files,
                chatUpdatedAt, sendVars, readVars, notifyVars>>
signalFrame == <<gatewayVars, socketVars, now, storeVars, sendVars, readVars, notifyVars>>

\* A request has ended: its parameters go, its outcome stays (the member it
\* removed from which conversation, and how many messages there were then).
GroupOpEnded(op) ==
    [IdleGroupOp EXCEPT !.pc = "done", !.removed = op.removed, !.seen = op.seen,
                        !.chat = IF op.removed # Undefined THEN op.chat ELSE Undefined]
GroupOpFailed(op, e) == [GroupOpEnded(op) EXCEPT !.err = e]

\* DELETE chat/:chatId/members/:userId, controller lines 188-195, and
\* removeMember up to its first lookup, service lines 865-868. Requests take
\* the request ids in order.
removeMember(g, u, t, ch) ==
    /\ gops[g].pc = "idle"
    /\ \A h \in GroupOpIds : h < g => gops[h].pc # "idle"
    /\ gops' = [gops EXCEPT ![g] =
                  [IdleGroupOp EXCEPT !.pc = "membership", !.kind = "remove", !.actor = u,
                                      !.target = t, !.chat = ch]]
    /\ emitted' = {}
    /\ UNCHANGED <<groupFrame, chats>>

\* POST chat/:chatId/leave, controller lines 235-241; leaveGroupChat is
\* removeMember of oneself, service lines 977-979.
leaveGroupChat(g, u, ch) ==
    /\ gops[g].pc = "idle"
    /\ \A h \in GroupOpIds : h < g => gops[h].pc # "idle"
    /\ gops' = [gops EXCEPT ![g] =
                  [IdleGroupOp EXCEPT !.pc = "membership", !.kind = "leave", !.actor = u,
                                      !.target = u, !.chat = ch]]
    /\ emitted' = {}
    /\ UNCHANGED <<groupFrame, chats>>

\* removeMember, lines 866-876: the requester's membership has been read.
RemoveActorMembership(g, dbOk) ==
    /\ gops[g].pc = "membership"
    /\ gops' = [gops EXCEPT ![g] =
                  IF ~dbOk THEN GroupOpFailed(@, "PersistenceFailure")
                  ELSE IF ~IsMember(@.actor, @.chat) THEN GroupOpFailed(@, "NotFound")
                  ELSE [@ EXCEPT !.pc = "chat"]]
    /\ emitted' = {}
    /\ UNCHANGED <<groupFrame, chats>>

\* removeMember, lines 875-886: the chat has been read; removing somebody
\* else goes on to checkAdminOrModeratorPermission.
RemoveLoadChat(g, dbOk) ==
    /\ gops[g].pc = "chat"
    /\ gops' = [gops EXCEPT ![g] =
                  IF ~dbOk THEN GroupOpFailed(@, "PersistenceFailure")
                  ELSE IF @.chat \notin DOMAIN chats \/ chats[@.chat].type # "group"
                  THEN GroupOpFailed(@, "BadRequest")
                  ELSE IF @.actor # @.target THEN [@ EXCEPT !.pc = "permission"]
                  ELSE [@ EXCEPT !.pc = "target"]]
    /\ emitted' = {}
    /\ UNCHANGED <<groupFrame, chats>>

\* checkAdminOrModeratorPermission, lines 1023-1035: the requester's
\* membership has been read again.
RemovePermission(g, dbOk) ==
    /\ gops[g].pc = "permission"
    /\ gops' = [gops EXCEPT ![g] =
                  IF ~dbOk THEN GroupOpFailed(@, "PersistenceFailure")
                  ELSE IF ~IsMember(@.actor, @.chat) THEN GroupOpFailed(@, "NotFound")
                  ELSE IF chats[@.chat].owner # @.actor THEN GroupOpFailed(@, "Forbidden")
                  ELSE [@ EXCEPT !.pc = "target"]]
    /\ emitted' = {}
    /\ UNCHANGED <<groupFrame, chats>>

\* removeMember, lines 888-899: the target's membership has been read.
RemoveTargetMembership(g, dbOk) ==
    /\ gops[g].pc = "target"
    /\ gops' = [gops EXCEPT ![g] =
                  IF ~dbOk THEN GroupOpFailed(@, "PersistenceFailure")
                  ELSE IF ~IsMember(@.target, @.chat) THEN GroupOpFailed(@, "NotFound")
                  ELSE IF chats[@.chat].owner = @.target THEN GroupOpFailed(@, "BadRequest")
                  ELSE [@ EXCEPT !.pc = "delete"]]
    /\ emitted' = {}
    /\ UNCHANGED <<groupFrame, chats>>

\* removeMember, lines 919-923: chatMember.delete has answered (it fails when
\* the row is gone). The controller then pushes chat:removed to the removed
\* user (lines 198-201, not on leave) and reads the remaining members.
RemoveDelete(g, ok) ==
    /\ gops[g].pc = "delete"
    /\ LET op == gops[g]
       IN IF ok /\ IsMember(op.target, op.chat)
          THEN /\ chats' = [chats EXCEPT ![op.chat].members = @ \ {op.target}]
               /\ gops' = [gops EXCEPT ![g] = [op EXCEPT !.pc = "notify", !.removed = op.target,
                                                         !.seen = Len(messages)]]
               /\ emitted' = IF op.kind = "remove"
                             THEN {<<c, "notification">> : c \in rooms[UserRoom(op.target)]}
                             ELSE {}
          ELSE /\ gops' = [gops EXCEPT ![g] = GroupOpFailed(op, "PersistenceFailure")]
               /\ emitted' = {}
               /\ UNCHANGED chats
    /\ UNCHANGED groupFrame

\* Controller lines 203-217 and 243-255: the remaining members have been read
\* and each is pushed chat:member-removed.
RemoveNotify(g, dbOk) ==
    /\ gops[g].pc = "notify"
    /\ IF dbOk
       THEN /\ gops' = [gops EXCEPT ![g] = GroupOpEnded(@)]
            /\ emitted' = {<<c, "notification">> :
                              c \in PersonalSockets(chats[gops[g].chat].members)}
       ELSE /\ gops' = [gops EXCEPT ![g] = GroupOpFailed(@, "PersistenceFailure")]
            /\ emitted' = {}
    /\ UNCHANGED <<groupFrame, chats>>

\* typing:start, typing:stop and group:update arrive, gateway lines 464-475,
\* 517-528 and 329-343. Without client.userId the handler throws before its
\* try block. typing:start first looks its user up; the others read the
\* members at once.
Signals == {"typing:start", "typing:stop", "group:update"}

handleSignal(g, kind, c, ch) ==
    /\ Connected(c)
    /\ gops[g].pc = "idle"
    /\ \A h \in GroupOpIds : h < g => gops[h].pc # "idle"
    /\ IF userId[c] = Undefined
       THEN /\ emitted' = {<<c, "exception">>}
            /\ UNCHANGED gops
       ELSE /\ emitted' = {}
            /\ gops' = [gops EXCEPT ![g] =
                          [IdleGroupOp EXCEPT
                              !.pc = IF kind = "typing:start" THEN "user" ELSE "members",
                              !.kind = kind, !.socket = c, !.actor = userId[c],
                              !.chat = ch]]
    /\ UNCHANGED signalFrame

\* handleTypingStart, lines 476-488: user.findUnique has answered. What the
\* catch rethrows reaches the client as 'exception'.
TypingLoadUser(g, dbOk) ==
    /\ gops[g].pc = "user"
    /\ LET op == gops[g]
       IN IF ~dbOk
          THEN /\ gops' = [gops EXCEPT ![g] = GroupOpFailed(op, "PersistenceFailure")]
               /\ emitted' = {<<op.socket, "exception">>}
          ELSE /\ gops' = [gops EXCEPT ![g] =
                             IF op.actor \in Users THEN [op EXCEPT !.pc = "members"]
                             ELSE GroupOpEnded(op)]
               /\ emitted' = {}
    /\ UNCHANGED signalFrame

\* The event a signal fans out, and the members it goes to: typing events
\* skip the requester (lines 500 and 535), group:updated goes to all (line
\* 346).
SignalEvent(kind) == IF kind = "group:update" THEN "group:updated" ELSE kind
SignalRecipients(op) ==
    IF op.chat \notin DOMAIN chats THEN {}
    ELSE IF op.kind = "group:update" THEN chats[op.chat].members
    ELSE chats[op.chat].members \ {op.actor}

\* Lines 490-509, 530-543 and 339-354: chatMember.findMany has answered and
\* the event goes to the personal rooms.
SignalMembers(g, dbOk) ==
    /\ gops[g].pc = "members"
    /\ LET op == gops[g]
       IN IF ~dbOk
          THEN /\ gops' = [gops EXCEPT ![g] = GroupOpFailed(op, "PersistenceFailure")]
               /\ emitted' = {<<op.socket, "exception">>}
          ELSE /\ gops' = [gops EXCEPT ![g] = GroupOpEnded(op)]
               /\ emitted' = {<<c, SignalEvent(op.kind)>> :
                                 c \in PersonalSockets(SignalRecipients(op))}
    /\ UNCHANGED signalFrame

\* The groups are followed over a store with one group conversation owned
\* by user 2, and each socket registered for user 1 or user 3.
GroupOwner == 2
GroupSenders == {1, 3}

InitGroupChat(ms) ==
    /\ InitRegistered
    /\ InitStore
    /\ chats = <<GroupChat(GroupOwner, ms)>>
    /\ InitReads
    /\ InitNotifications
    /\ InitGroupOps

\* Users 1 and 3 are members, and every send request is a message:send of
\* user 1 suspended at message.create.
InitGroup ==
    /\ InitGroupChat({1, 2, 3})
    /\ ops = [o \in OpIds |->
                [IdleOp EXCEPT !.pc = "create", !.entry = "ws", !.sender = 1, !.chat = 1]]
    /\ roomLog = <<>>
    /\ userLog = {}

\* User 1 is a member; user 3 is one, or has never been one.
InitSignal ==
    /\ \E ms \in {{1, 2}, {1, 2, 3}} : InitGroupChat(ms)
    /\ InitSend

NextGroup ==
    \/ \E c \in Sockets, ch \in DOMAIN chats : JoinChat(c, ch)
    \/ \E c \in Sockets, dbOk \in BOOLEAN : JoinResume(c, dbOk)
    \/ \E g \in GroupOpIds, ch \in ChatIds : removeMember(g, GroupOwner, 3, ch)
    \/ \E g \in GroupOpIds, ch \in ChatIds : leaveGroupChat(g, 3, ch)
    \/ \E g \in GroupOpIds, dbOk \in BOOLEAN : RemoveActorMembership(g, dbOk)
    \/ \E g \in GroupOpIds, dbOk \in BOOLEAN : RemoveLoadChat(g, dbOk)
    \/ \E g \in GroupOpIds, dbOk \in BOOLEAN : RemovePermission(g, dbOk)
    \/ \E g \in GroupOpIds, dbOk \in BOOLEAN : RemoveTargetMembership(g, dbOk)
    \/ \E g \in GroupOpIds, ok \in BOOLEAN : RemoveDelete(g, ok)
    \/ \E g \in GroupOpIds, dbOk \in BOOLEAN : RemoveNotify(g, dbOk)
    \/ \E o \in OpIds : CreateMessage(o, TRUE)
    \/ \E o \in OpIds : UpdateChat(o, TRUE)
    \/ \E o \in OpIds : FormatMessage(o, TRUE)
    \/ \E o \in OpIds : EmitMessage(o, TRUE)

SpecGroup == InitGroup /\ [][NextGroup]_vars

\* The typing signals and group updates, with the removals that make a member
\* a non-member.
NextSignal ==
    \/ \E g \in GroupOpIds, kind \in Signals, c \in Sockets, ch \in ChatIds :
          handleSignal(g, kind, c, ch)
    \/ \E g \in GroupOpIds, dbOk \in BOOLEAN : TypingLoadUser(g, dbOk)
    \/ \E g \in GroupOpIds, dbOk \in BOOLEAN : SignalMembers(g, dbOk)
    \/ \E g \in GroupOpIds, t \in GroupSenders, ch \in ChatIds :
          removeMember(g, GroupOwner, t, ch)
    \/ \E g \in GroupOpIds, u \in GroupSenders, ch \in ChatIds : leaveGroupChat(g, u, ch)
    \/ \E g \in GroupOpIds, dbOk \in BOOLEAN : RemoveActorMembership(g, dbOk)
    \/ \E g \in GroupOpIds, dbOk \in BOOLEAN : RemoveLoadChat(g, dbOk)
    \/ \E g \in GroupOpIds, dbOk \in BOOLEAN : RemovePermission(g, dbOk)
    \/ \E g \in GroupOpIds, dbOk \in BOOLEAN : RemoveTargetMembership(g, dbOk)
    \/ \E g \in GroupOpIds, ok \in BOOLEAN : RemoveDelete(g, ok)
    \/ \E g \in GroupOpIds, dbOk \in BOOLEAN : RemoveNotify(g, dbOk)
    \/ \E c \in Sockets : Disconnect(c)

SpecSignal == InitSignal /\ [][NextSignal]_vars

\* ------------------------------------------------- removal from a room ----
\* C28: once removeMember or leaveGroupChat has deleted a user's membership of
\* a conversation, no connection of that user receives message:new for a
\* message of that conversation created afterwards.
C28_RemovedMemberReceivesNothing ==
    [][\A o \in OpIds, g \in GroupOpIds, c \in Sockets :
          (/\ ops[o].pc = "members" /\ ops'[o].pc = "done"
           /\ gops[g].removed # Undefined
           /\ gops[g].removed = userId[c]
           /\ gops[g].chat = ops[o].chat
           /\ gops[g].seen < ops[o].msgId)
              => <<c, "message:new">> \notin emitted']_vars

\* ------------------------------------------- signals from members only ----
\* C29: a typing:start, typing:stop or group:update request delivers its
\* event to the members only if the requester is a member of the
\* conversation when the event goes out.
C29_SignalsFromMembersOnly ==
    [][\A g \in GroupOpIds :
          (/\ gops[g].pc = "members" /\ gops'[g].pc = "done"
           /\ gops[g].kind \in Signals
           /\ ~IsMember(gops[g].actor, gops[g].chat))
              => \A e \in emitted' : e[2] # SignalEvent(gops[g].kind)]_vars

\* ------------------------------------------- the outcome told the sender ----
\* C30: a message:send that has ended with message:error has persisted no
\* message, and one whose message is persisted has ended with the success
\* acknowledgement.
C30_ErrorMeansNotPersisted ==
    \A o \in OpIds :
        (ops[o].pc = "done" /\ ops[o].entry = "ws") =>
            /\ ops[o].errEmitted => ops[o].msgId = Undefined
            /\ (ops[o].msgId # Undefined /\ Persisted(ops[o].msgId)) => ops[o].err = ""

====
